---- MODULE Spec2Model ----
(***************************************************************************)
(* swiftsolve: the iterative refinement controller (run_pipeline) with the *)
(* static pruner gate and the producer interfaces it calls (Spec), one     *)
(* call of Profiler.run (ProfilerSpec) and one call of Analyst.run         *)
(* (AnalystSpec), and BatchRunner.run_benchmark with its worker processes   *)
(* (BatchSpec).                                                            *)
(*                                                                         *)
(* A Python Optional value is modelled as a sequence: <<>> is None (or a   *)
(* local variable that is not bound yet), <<x>> is the value x.            *)
(***************************************************************************)
EXTENDS Integers, Sequences, FiniteSets, TLC

None == <<>>
Some(x) == <<x>>
The(o) == o[1]

(* ----------------------------- bounds -------------------------------- *)

\* max_iterations is a setting; runs are explored for 1..MaxIterBound.
MaxIterBound == 3

(* ------------------------ program constants -------------------------- *)

\* solve_loop.py:23  max_failures = 2
max_failures == 2

\* config.py:10  diminish_delta: float = 0.05, kept as the fraction 5/100
diminish_delta_num == 5
diminish_delta_den == 100

\* float("inf"), the sentinel of a failed measurement and of "no previous
\* runtime"; every finite runtime of the model is below it.
Inf == 1000000

\* pruner.py:27 and :32, the thresholds on the declared bound n
RecursionBound == 10000
SortLoopBound == 1000

(* --------------------------- input domains --------------------------- *)

\* Plan.algorithm, lower-cased, as a sequence of words.
AlgorithmTexts ==
    { <<"linear", "scan">>,
      <<"recursion">>,
      <<"while", "loop">>,
      <<"for", "in", ":", "sort()">> }

\* Plan.input_bounds.get("n", 0)
BoundsN == {999, 10000}

\* A plan with three while loops for n up to 100000.
ManyWhilePlan ==
    [algorithm |-> <<"while", "while", "while">>, n |-> 100000]

Plans == [algorithm : AlgorithmTexts, n : BoundsN] \cup {ManyWhilePlan}

\* The plans the planning collaborator offers on a re-planning request.
ReplanPlans ==
    { [algorithm |-> <<"linear", "scan">>, n |-> 10000],
      [algorithm |-> <<"recursion">>, n |-> 999] }

\* CodeMessage.code_cpp returned by the coding collaborator
Sources == {"srcA", "srcB"}

\* Worst-case (largest-size) runtimes in ms, and the sentinel.
Times == {0, 95, 96, 100, Inf}

\* ProfileReport.runtime_ms: empty, or a two-point ladder.
RuntimeSeries == {<<>>} \cup {<<1, t>> : t \in Times}

\* VerdictMessage.patch (Optional[str])
Patches == {None, Some(""), Some("P1"), Some("P2")}

\* VerdictMessage.target_agent (Optional[TargetAgent])
Targets == {None, Some("CODER"), Some("PLANNER")}

Verdicts ==
    {[efficient |-> TRUE, target_agent |-> None, patch |-> None]}
    \cup [efficient : {FALSE}, target_agent : {Some("CODER")}, patch : Patches]
    \cup [efficient : {FALSE}, target_agent : Targets \ {Some("CODER")},
          patch : {None, Some("P1")}]

(* ------------------------------ state -------------------------------- *)

VARIABLES
    pc,             \* position of run_pipeline
    max_iter,       \* get_settings().max_iterations
    iter_idx,       \* loop variable of "for iter_idx in range(max_iter)"
    agent_failures, \* failure counter
    plan,           \* Optional: the current Plan
    pending_patch,  \* Optional[str]
    last_time,      \* last_time
    current_time,   \* current_time of the iteration under analysis
    code,           \* Optional: [code_cpp, iter]
    profile,        \* Optional: [runtime_ms, code_cpp, iter]
    verdict,        \* Optional: the local "verdict" (<<>> while unbound)
    result,         \* Optional: the returned record
    raised,         \* Optional: the exception that left run_pipeline
    ncalls,         \* history: number of calls per producer
    coder_arg,      \* history: arguments of the last coder call
    route,          \* history: the routing decision not yet followed by a coder call
    delivered,      \* history: successful coder calls given the routed patch
    divisions,      \* history: number of gain divisions performed
    gate,           \* history: what pruner.validate did ("" before the call)
    replan_collab,  \* history: outcome of the planning collaborator at the
                    \*          last re-planning request
    nfailed         \* history: number of producer calls that raised

\* The variables of run_pipeline.
ctl_vars == <<pc, max_iter, iter_idx, agent_failures, plan, pending_patch,
              last_time, current_time, code, profile, verdict, result, raised,
              ncalls, coder_arg, route, delivered, divisions, gate,
              replan_collab, nfailed>>

\* The state of one call of Profiler.run (agents/profiler.py).
VARIABLES
    prof_pc,         \* position of Profiler.run ("idle": no call in progress)
    prof_code,       \* Optional: the CodeMessage argument (its code_cpp)
    prof_debug,      \* the keyword argument debug
    input_sizes,     \* input_sizes
    input_data_list, \* input_data_list
    attempt,         \* loop variable of "for attempt in range(2)"
    size_idx,        \* position of "for i, (n, input_data) in enumerate(zip(..))"
    error_msg,       \* Optional: error_msg of _compile_cpp
    binary_path,     \* Optional: the binary _compile_cpp returned
    runtimes,        \* runtimes
    memories,        \* memories
    hotspots,        \* hotspots, as its set of <<key, text>> items
    prof_return,     \* Optional: the ProfileReport returned
    prof_raised,     \* Optional: the exception that left Profiler.run
    compile_log,     \* history: outcome of every compiler invocation
    measured,        \* history: what every execution was fed and what was
                     \*          recorded for it
    last_exec        \* history: outcome of the latest execution

prof_vars == <<prof_pc, prof_code, prof_debug, input_sizes, input_data_list,
               attempt, size_idx, error_msg, binary_path, runtimes, memories,
               hotspots,
               prof_return, prof_raised, compile_log, measured, last_exec>>

\* The state of one call of Analyst.run (agents/analyst.py).
VARIABLES
    an_pc,           \* position of Analyst.run ("idle": no call in progress)
    an_report,       \* Optional: the ProfileReport argument
    time_complexity, \* Optional: the label _curve_fit returned
    an_return,       \* Optional: the VerdictMessage returned
    an_raised,       \* Optional: the exception that left Analyst.run
    oracle_calls,    \* history: number of chat completion requests
    oracle_reply,    \* history: Optional: the content of the latest reply
    fit_path         \* history: how _curve_fit came to its label

an_vars == <<an_pc, an_report, time_complexity, an_return, an_raised,
             oracle_calls, oracle_reply, fit_path>>

\* The state of one call of BatchRunner.run_benchmark
\* (evaluation/batch_runner.py) and of the worker processes of its pool.
VARIABLES
    b_pc,            \* position of run_benchmark ("idle": no call in progress)
    tasks,           \* the task_id of every entry of the tasks argument
    seeds,           \* the seeds argument
    runs_per_task,   \* the runs_per_task argument
    max_workers,     \* self.max_workers
    jobs,            \* the job specifications, in submission order
    future,          \* per job: "pending", "running", "compiled", "profiled",
                     \*   "result", "none", "exception" or "collected"
    persistent_bin,  \* per job: Optional: the path _compile_cpp copied to
    binaries,        \* /tmp/swiftsolve_binaries: path -> job whose binary it holds
    executed,        \* per job: the jobs whose binaries its profiler executed
    results,         \* run_benchmark's list results (job numbers)
    failed_jobs,     \* run_benchmark's list failed_jobs (job numbers)
    written,         \* history: the result files opened for writing, in order
    summary          \* Optional: the summary returned

batch_vars == <<b_pc, tasks, seeds, runs_per_task, max_workers, jobs, future,
                persistent_bin, binaries, executed, results, failed_jobs,
                written, summary>>

\* The variables of the components that are modelled with their own code.
agent_vars == <<prof_vars, an_vars, batch_vars>>

vars == <<ctl_vars, agent_vars>>

\* No call of Profiler.run is in progress.
ProfilerNotStarted ==
    /\ prof_pc = "idle"
    /\ prof_code = None
    /\ prof_debug = FALSE
    /\ input_sizes = <<>>
    /\ input_data_list = <<>>
    /\ attempt = 0
    /\ size_idx = 0
    /\ error_msg = None
    /\ binary_path = None
    /\ runtimes = <<>>
    /\ memories = <<>>
    /\ hotspots = {}
    /\ prof_return = None
    /\ prof_raised = None
    /\ compile_log = <<>>
    /\ measured = <<>>
    /\ last_exec = None

\* No call of Analyst.run is in progress.
AnalystNotStarted ==
    /\ an_pc = "idle"
    /\ an_report = None
    /\ time_complexity = None
    /\ an_return = None
    /\ an_raised = None
    /\ oracle_calls = 0
    /\ oracle_reply = None
    /\ fit_path = ""

\* No call of run_benchmark is in progress.
BatchNotStarted ==
    /\ b_pc = "idle"
    /\ tasks = <<>>
    /\ seeds = <<>>
    /\ runs_per_task = 0
    /\ max_workers = 0
    /\ jobs = <<>>
    /\ future = <<>>
    /\ persistent_bin = <<>>
    /\ binaries = <<>>
    /\ executed = <<>>
    /\ results = <<>>
    /\ failed_jobs = <<>>
    /\ written = <<>>
    /\ summary = None

\* Only run_pipeline runs: the producers are the collaborators of its phases.
AgentsNotStarted == ProfilerNotStarted /\ AnalystNotStarted /\ BatchNotStarted

Producers == {"planner", "pruner", "coder", "profiler", "analyst", "replanner"}

(* ------------------------- static pruner ----------------------------- *)

\* "w" in algo
HasWord(algo, w) == \E i \in 1..Len(algo) : algo[i] = w

\* _BAD_SORT_LOOP.search(algo): "for .* in .*:.*sort\(.*\)"
BadSortLoop(algo) ==
    \E i, j, k, l \in 1..Len(algo) :
        /\ i < j /\ j < k /\ k < l
        /\ algo[i] = "for" /\ algo[j] = "in" /\ algo[k] = ":" /\ algo[l] = "sort()"

\* pruner.validate(plan): "true", "false", or "raise".  Line 22 is
\*   "while" in algo and "while" in algo.count("while") > 2 and n >= 1e5
\* whose second operand tests membership in an int: once "while" in algo
\* holds, evaluating it raises TypeError.
Validate(p) ==
    IF HasWord(p.algorithm, "while") THEN "raise"
    ELSE IF HasWord(p.algorithm, "recursion") /\ p.n >= RecursionBound THEN "false"
    ELSE IF BadSortLoop(p.algorithm) /\ p.n >= SortLoopBound THEN "false"
    ELSE "true"

(* ----------------------- producer interfaces ------------------------- *)

\* Keyword arguments Planner.run accepts besides the positional problem:
\* def run(self, problem: ProblemInput) -> PlanMessage
PlannerRunKeywords == {}

\* planner.run(problem, **kwargs): the collaborator's outcome (None when it
\* raises), or None (TypeError) when a keyword is not accepted.
PlannerRun(kwargs, collab) ==
    IF kwargs \subseteq PlannerRunKeywords THEN collab ELSE None

(* ------------------- run_pipeline: pure decisions -------------------- *)

\* Variant: the negation dropped from the gate test.
GateRejectsInverted(ok) == ok = "true"

\* if not pruner.validate(plan): return {"status": "static_prune_failed"}
GateRejects(ok) == ok = "false"

\* agent_failures += 1 in every except block
CounterAfterFailure(f) == f + 1

\* Variant: the counter counts consecutive failures, a success resets it.
CounterResetOnSuccess(f) == 0

\* No statement of a path on which the producer call returned assigns
\* agent_failures.
CounterAfterSuccess(f) == f

\* Variant: the budget test off by one (>).
BudgetExhaustedStrict(f) == f > max_failures

\* if agent_failures >= max_failures
BudgetExhausted(f) == f >= max_failures

\* if pending_patch:
Truthy(p) == p # None /\ The(p) # ""

\* The text a patch value carries; None and "" both carry none.
PatchText(p) == IF p = None THEN "" ELSE The(p)

\* The patch argument of the coder call: coder.run(plan, patch=pending_patch)
\* when pending_patch is truthy, coder.run(plan) (patch defaults to None) else.
CoderArgPatch(p) == IF Truthy(p) THEN p ELSE None

\* Variant: the patch is not cleared after it was passed.
PatchKeptAfterCoder(p) == p

\* pending_patch after a coder call that returned: cleared when it was passed.
PatchAfterCoder(p) == IF Truthy(p) THEN None ELSE p

\* Variant: the patch is cleared before the call, so a raising call loses it.
PatchClearedBeforeCoder(p) == IF Truthy(p) THEN None ELSE p

\* pending_patch after a coder call that raised: line 69 (pending_patch =
\* None) follows the call of line 68 and is not reached.
PatchAfterFailedCoder(p) == p

\* Variant: the efficiency test inverted.
IsEfficientInverted(v) == ~v.efficient

\* if verdict.efficient:
IsEfficient(v) == v.efficient

\* Variant: the first entry of the series instead of the last.
CurrentTimeFirst(rt) == IF Len(rt) > 0 THEN rt[1] ELSE Inf

\* current_time = profile.runtime_ms[-1] if profile.runtime_ms else float('inf')
CurrentTime(rt) == IF Len(rt) > 0 THEN rt[Len(rt)] ELSE Inf

\* if last_time != float('inf') and current_time != float('inf'):
CanComputeGain(last, cur) == last # Inf /\ cur # Inf

\* Variant: the absolute improvement compared with the threshold, the
\* division by last_time left out.
GainBelowDeltaAbsolute(last, cur) ==
    (last - cur) * diminish_delta_den < diminish_delta_num

\* gain = (last_time - current_time) / last_time; gain < diminish_delta
\* (for last > 0; last = 0 raises ZeroDivisionError before the comparison)
GainBelowDelta(last, cur) ==
    (last - cur) * diminish_delta_den < diminish_delta_num * last

\* Variant: the comparison of line 131 inverted.
RoutesToCoderInverted(v) == v.target_agent # Some("CODER")

\* if verdict.target_agent == "CODER":
RoutesToCoder(v) == v.target_agent = Some("CODER")

\* What lines 112-135 decide once the analyst has returned verdict v for a
\* profile whose largest-size runtime is cur.
Decide(v, last, cur) ==
    IF IsEfficient(v) THEN "accept"
    ELSE IF CanComputeGain(last, cur)
         THEN IF last = 0 THEN "zero_division"
              ELSE IF GainBelowDelta(last, cur) THEN "stall"
              ELSE IF RoutesToCoder(v) THEN "to_coder" ELSE "to_planner"
         ELSE IF RoutesToCoder(v) THEN "to_coder" ELSE "to_planner"

\* The "error" strings of the agent_failure returns.
ErrorName(phase) ==
    CASE phase = "planning"   -> "Planner failed"
      [] phase = "pruning"    -> "Static Pruner failed"
      [] phase = "coding"     -> "Coder failed"
      [] phase = "profiling"  -> "Profiler failed"
      [] phase = "analyzing"  -> "Analyst failed"
      [] phase = "replanning" -> "Planner re-planning failed"

NoResultFields ==
    [status |-> "", error |-> None, details |-> None,
     last_verdict |-> None, code |-> None, profile |-> None]

\* {"status": "agent_failure", "error": ..., "details": str(e)}
AgentFailureResult(phase) ==
    [NoResultFields EXCEPT !.status = "agent_failure",
                           !.error = Some(ErrorName(phase)),
                           !.details = Some("str(e)")]

\* {"status": "static_prune_failed"}
PruneFailedResult == [NoResultFields EXCEPT !.status = "static_prune_failed"]

\* {"status": "success", "code": code.code_cpp, "profile": profile}
SuccessResult(c, p) ==
    [NoResultFields EXCEPT !.status = "success",
                           !.code = Some(c.code_cpp),
                           !.profile = Some(p)]

\* {"status": "failed", "last_verdict": verdict.model_dump()}
FailedResult(v) ==
    [NoResultFields EXCEPT !.status = "failed", !.last_verdict = Some(v)]

(* --------------------- run_pipeline: control flow -------------------- *)

\* The state at the entry of run_pipeline.  last_time and pending_patch are
\* assigned at lines 56-57, before their first use; they hold those values
\* from the start.
Init ==
    /\ pc = "planning"
    /\ max_iter \in 1..MaxIterBound
    /\ iter_idx = 0
    /\ agent_failures = 0
    /\ plan = None
    /\ pending_patch = None
    /\ last_time = Inf
    /\ current_time = Inf
    /\ code = None
    /\ profile = None
    /\ verdict = None
    /\ result = None
    /\ raised = None
    /\ ncalls = [a \in Producers |-> 0]
    /\ coder_arg = None
    /\ route = None
    /\ delivered = 0
    /\ divisions = 0
    /\ gate = ""
    /\ replan_collab = None
    /\ nfailed = 0
    /\ AgentsNotStarted

\* return r
Return(r) ==
    /\ pc' = "done"
    /\ result' = Some(r)
    /\ raised' = None
    /\ iter_idx' = iter_idx

\* an exception e leaves run_pipeline
Raise(e) ==
    /\ pc' = "done"
    /\ result' = None
    /\ raised' = Some(e)
    /\ iter_idx' = iter_idx

\* Lines 153-154, reached when the loop is exhausted or left by break:
\*   return {"status": "failed", "last_verdict": verdict.model_dump()}
\* vd is the local "verdict"; reading it while unbound raises UnboundLocalError.
AfterLoop(vd) ==
    IF vd = None THEN Raise("UnboundLocalError")
    ELSE Return(FailedResult(The(vd)))

\* Variant: the next iteration starts at the pruner gate.
NextIterationThroughGate(vd) ==
    IF iter_idx + 1 < max_iter
    THEN /\ pc' = "pruning"
         /\ iter_idx' = iter_idx + 1
         /\ result' = None
         /\ raised' = None
    ELSE AfterLoop(vd)

\* Variant: the loop body is entered again without advancing the index.
NextIterationSameIndex(vd) ==
    IF iter_idx + 1 < max_iter
    THEN /\ pc' = "coding"
         /\ iter_idx' = iter_idx
         /\ result' = None
         /\ raised' = None
    ELSE AfterLoop(vd)

\* "continue", or the end of the loop body: the for statement takes the next
\* index of range(max_iter), or the loop is exhausted.
NextIteration(vd) ==
    IF iter_idx + 1 < max_iter
    THEN /\ pc' = "coding"
         /\ iter_idx' = iter_idx + 1
         /\ result' = None
         /\ raised' = None
    ELSE AfterLoop(vd)

\* The except blocks inside the loop (lines 74-80, 89-95, 104-110, 143-149).
LoopFailure(vd) ==
    /\ agent_failures' = CounterAfterFailure(agent_failures)
    /\ nfailed' = nfailed + 1
    /\ IF BudgetExhausted(CounterAfterFailure(agent_failures))
       THEN Return(AgentFailureResult(pc))
       ELSE NextIteration(vd)

\* The except blocks before the loop (lines 32-38, 48-54): both branches return.
EarlyFailure ==
    /\ agent_failures' = CounterAfterFailure(agent_failures)
    /\ nfailed' = nfailed + 1
    /\ Return(AgentFailureResult(pc))

Called(a) == ncalls' = [ncalls EXCEPT ![a] = @ + 1]

\* Lines 25-38: plan = planner.run(problem)
PlannerPhase ==
    /\ pc = "planning"
    /\ \E collab \in {None} \cup {Some(p) : p \in Plans} :
         LET out == PlannerRun({}, collab) IN
         /\ Called("planner")
         /\ IF out = None
            THEN /\ EarlyFailure
                 /\ UNCHANGED plan
            ELSE /\ plan' = out
                 /\ pc' = "pruning"
                 /\ agent_failures' = CounterAfterSuccess(agent_failures)
                 /\ UNCHANGED <<nfailed, result, raised, iter_idx>>
    /\ UNCHANGED <<max_iter, pending_patch, last_time, current_time, code,
                   profile, verdict, coder_arg, route, delivered, divisions,
                   gate, replan_collab>>
    /\ UNCHANGED agent_vars

\* Lines 40-59: the pruner gate, then last_time, pending_patch and loop entry.
PrunerPhase ==
    /\ pc = "pruning"
    /\ Called("pruner")
    /\ LET ok == Validate(The(plan)) IN
       /\ gate' = ok
       /\ IF ok = "raise" THEN EarlyFailure
          ELSE IF GateRejects(ok)
          THEN /\ Return(PruneFailedResult)
               /\ agent_failures' = CounterAfterSuccess(agent_failures)
               /\ UNCHANGED nfailed
          ELSE /\ IF 0 < max_iter
                  THEN pc' = "coding" /\ UNCHANGED <<result, raised, iter_idx>>
                  ELSE AfterLoop(verdict)
               /\ agent_failures' = CounterAfterSuccess(agent_failures)
               /\ UNCHANGED nfailed
    /\ last_time' = Inf
    /\ pending_patch' = None
    /\ UNCHANGED <<max_iter, plan, current_time, code, profile, verdict,
                   coder_arg, route, delivered, divisions, replan_collab>>
    /\ UNCHANGED agent_vars

\* Lines 62-80: code = coder.run(plan[, patch=pending_patch])
CoderPhase ==
    /\ pc = "coding"
    /\ \E out \in {None} \cup {Some(s) : s \in Sources} :
         LET arg == CoderArgPatch(pending_patch) IN
         /\ Called("coder")
         /\ coder_arg' = Some([plan |-> The(plan), patch |-> arg])
         /\ route' = None
         /\ IF out = None
            THEN /\ LoopFailure(verdict)
                 /\ pending_patch' = PatchAfterFailedCoder(pending_patch)
                 /\ UNCHANGED <<code, delivered>>
            ELSE /\ code' = Some([code_cpp |-> The(out), iter |-> iter_idx])
                 /\ pending_patch' = PatchAfterCoder(pending_patch)
                 /\ delivered' = IF arg = None THEN delivered ELSE delivered + 1
                 /\ pc' = "profiling"
                 /\ agent_failures' = CounterAfterSuccess(agent_failures)
                 /\ UNCHANGED <<nfailed, result, raised, iter_idx>>
    /\ UNCHANGED <<max_iter, plan, last_time, current_time, profile, verdict,
                   divisions, gate, replan_collab>>
    /\ UNCHANGED agent_vars

\* Lines 82-95: profile = profiler.run(code)
ProfilerPhase ==
    /\ pc = "profiling"
    /\ \E out \in {None} \cup {Some(rt) : rt \in RuntimeSeries} :
         /\ Called("profiler")
         /\ IF out = None
            THEN /\ LoopFailure(verdict)
                 /\ UNCHANGED profile
            ELSE /\ profile' = Some([runtime_ms |-> The(out), of |-> The(code)])
                 /\ pc' = "analyzing"
                 /\ agent_failures' = CounterAfterSuccess(agent_failures)
                 /\ UNCHANGED <<nfailed, result, raised, iter_idx>>
    /\ UNCHANGED <<max_iter, plan, pending_patch, last_time, current_time, code,
                   verdict, coder_arg, route, delivered, divisions, gate,
                   replan_collab>>
    /\ UNCHANGED agent_vars

\* Lines 97-135 and 151: verdict = analyst.run(profile, constraints), the
\* efficiency test, the convergence check and the routing to the coder.
AnalystPhase ==
    /\ pc = "analyzing"
    /\ \E out \in {None} \cup {Some(v) : v \in Verdicts} :
         /\ Called("analyst")
         /\ IF out = None
            THEN /\ LoopFailure(verdict)
                 /\ UNCHANGED <<verdict, current_time, last_time, pending_patch,
                                route, delivered, divisions>>
            ELSE LET v   == The(out)
                     cur == CurrentTime(The(profile).runtime_ms)
                     d   == Decide(v, last_time, cur)
                 IN
                 /\ verdict' = out
                 /\ agent_failures' = CounterAfterSuccess(agent_failures)
                 /\ UNCHANGED nfailed
                 /\ current_time' = IF d = "accept" THEN current_time ELSE cur
                 /\ divisions' = IF d # "accept" /\ CanComputeGain(last_time, cur)
                                 THEN divisions + 1 ELSE divisions
                 /\ CASE d = "accept" ->
                           /\ Return(SuccessResult(The(code), The(profile)))
                           /\ UNCHANGED <<last_time, pending_patch, route, delivered>>
                      [] d = "zero_division" ->
                           /\ Raise("ZeroDivisionError")
                           /\ UNCHANGED <<last_time, pending_patch, route, delivered>>
                      [] d = "stall" ->
                           /\ AfterLoop(out)
                           /\ UNCHANGED <<last_time, pending_patch, route, delivered>>
                      [] d = "to_coder" ->
                           /\ pending_patch' = v.patch
                           /\ last_time' = cur
                           /\ route' = Some([plan |-> The(plan), patch |-> v.patch])
                           /\ delivered' = 0
                           /\ NextIteration(out)
                      [] d = "to_planner" ->
                           /\ pc' = "replanning"
                           /\ UNCHANGED <<last_time, pending_patch, route, delivered,
                                          result, raised, iter_idx>>
    /\ UNCHANGED <<max_iter, plan, code, profile, coder_arg, gate, replan_collab>>
    /\ UNCHANGED agent_vars

\* Lines 134-151: plan = planner.run(problem, feedback=feedback)
ReplanPhase ==
    /\ pc = "replanning"
    /\ \E collab \in {None} \cup {Some(p) : p \in ReplanPlans} :
         LET out == PlannerRun({"feedback"}, collab) IN
         /\ Called("replanner")
         /\ replan_collab' = collab
         /\ IF out = None
            THEN /\ LoopFailure(verdict)
                 /\ UNCHANGED <<plan, last_time>>
            ELSE /\ plan' = out
                 /\ last_time' = current_time
                 /\ NextIteration(verdict)
                 /\ agent_failures' = CounterAfterSuccess(agent_failures)
                 /\ UNCHANGED nfailed
    /\ UNCHANGED <<max_iter, pending_patch, current_time, code, profile, verdict,
                   coder_arg, route, delivered, divisions, gate>>
    /\ UNCHANGED agent_vars

Next ==
    \/ PlannerPhase
    \/ PrunerPhase
    \/ CoderPhase
    \/ ProfilerPhase
    \/ AnalystPhase
    \/ ReplanPhase

Spec == Init /\ [][Next]_vars

(* ====================== properties of run_pipeline =================== *)

\* A run that has ended makes no further step (no producer is called again).
Terminal == pc = "done" => ~ENABLED Next

\* The step in which analyst.run returns a Verdict (no exception).
AnalystReturns ==
    /\ pc = "analyzing"
    /\ ncalls'["analyst"] = ncalls["analyst"] + 1
    /\ agent_failures' = agent_failures

\* The step in which a producer call inside the loop raises.
LoopCallFails ==
    /\ pc \in {"coding", "profiling", "analyzing", "replanning"}
    /\ agent_failures' = agent_failures + 1

\* Largest-size runtime of the profile under analysis: the last entry of
\* runtime_ms, the sentinel for an empty series.
WorstRuntime ==
    LET rt == The(profile).runtime_ms IN
    IF rt = <<>> THEN Inf ELSE rt[Len(rt)]

\* No producer other than the analyst is called in the step.
OnlyAnalystCalled ==
    \A a \in Producers \ {"analyst"} : ncalls'[a] = ncalls[a]

(* C1: run_pipeline never lets an exception escape: every ended run has a
   result record, a 'failed' result carries last_verdict and an
   'agent_failure' result carries error and details. *)
C1_AlwaysReturnsRecord ==
    pc = "done" =>
        /\ raised = None
        /\ result # None
        /\ The(result).status = "failed" => The(result).last_verdict # None
        /\ The(result).status = "agent_failure" =>
               The(result).error # None /\ The(result).details # None

(* C2: when the analyst returns an efficient Verdict, the run ends in that
   step with status 'success', the source generated in this iteration and
   the profile measured for it; no convergence check, routing or further
   producer call follows. *)
C2_EfficientAccepts ==
    /\ [][(AnalystReturns /\ The(verdict').efficient) =>
            /\ pc' = "done"
            /\ raised' = None
            /\ result' = Some([status |-> "success", error |-> None,
                               details |-> None, last_verdict |-> None,
                               code |-> Some(The(code).code_cpp),
                               profile |-> Some(The(profile))])
            /\ The(code).iter = iter_idx
            /\ The(profile).of = The(code)
            /\ OnlyAnalystCalled
            /\ UNCHANGED <<divisions, route, pending_patch, last_time, plan>>]_vars
    /\ []Terminal

C2_Witness ==
    /\ pc = "done"
    /\ result # None
    /\ The(result).status = "success"
    /\ iter_idx >= 1
    /\ The(result).code = Some(The(code).code_cpp)
    /\ The(code).iter = iter_idx

(* C3: when pruner.validate returns false for the initial Plan the run ends
   at once with status 'static_prune_failed', and the coder, the profiler
   and the analyst are never called. *)
C3_PruneRejectIsTerminal ==
    gate = "false" =>
        /\ pc = "done"
        /\ raised = None
        /\ result # None
        /\ The(result).status = "static_prune_failed"
        /\ ncalls["coder"] = 0
        /\ ncalls["profiler"] = 0
        /\ ncalls["analyst"] = 0
        /\ ncalls["replanner"] = 0
        /\ ~ENABLED Next

C3_Witness ==
    /\ gate = "false"
    /\ pc = "done"
    /\ ncalls["pruner"] = 1

(* C4: convergence circuit breaker.  When the analyst returns a non-efficient
   Verdict and the previous worst-case runtime (last_time) and the current
   one are both finite, with gain = (prev - cur) / prev below diminish_delta
   (5/100), the run ends with status 'failed' carrying that Verdict, and
   neither the coder nor the planner is called again -- also when the
   Verdict targets the coder and carries a patch. *)
C4_StallAborts ==
    /\ [][(/\ AnalystReturns
           /\ ~The(verdict').efficient
           /\ last_time # Inf /\ WorstRuntime # Inf
           /\ last_time > 0
           /\ (last_time - WorstRuntime) * 100 < 5 * last_time) =>
            /\ pc' = "done"
            /\ raised' = None
            /\ result' # None
            /\ The(result').status = "failed"
            /\ The(result').last_verdict = verdict'
            /\ OnlyAnalystCalled
            /\ UNCHANGED <<pending_patch, plan>>]_vars
    /\ []Terminal

C4_Witness ==
    /\ pc = "done"
    /\ result # None
    /\ The(result).status = "failed"
    /\ iter_idx + 1 < max_iter
    /\ divisions >= 1
    /\ The(verdict).target_agent = Some("CODER")
    /\ The(verdict).patch = Some("P2")
    /\ last_time = 100 /\ current_time = 96

(* C5: the gain uses the last entry of runtime_ms of the previous and the
   current iteration; when either value is the infinite sentinel (first
   iteration and empty series included) no division is performed and the
   run proceeds to routing. *)
C5_SentinelSkipsGain ==
    /\ [][(/\ AnalystReturns
           /\ ~The(verdict').efficient
           /\ (last_time = Inf \/ WorstRuntime = Inf)) =>
            /\ divisions' = divisions
            /\ raised' = None
            /\ current_time' = WorstRuntime
            /\ IF The(verdict').target_agent = Some("CODER")
               THEN /\ pending_patch' = The(verdict').patch
                    /\ last_time' = WorstRuntime
                    /\ route' # None
               ELSE pc' = "replanning"]_vars
    /\ [][(/\ AnalystReturns
           /\ ~The(verdict').efficient
           /\ last_time # Inf /\ WorstRuntime # Inf) =>
            divisions' = divisions + 1]_vars
    /\ [][last_time' # last_time =>
            /\ pc \in {"analyzing", "replanning"}
            /\ last_time' = current_time'
            /\ current_time' = WorstRuntime]_vars

C5_Witness ==
    /\ pc = "coding"
    /\ iter_idx >= 1
    /\ divisions = 0
    /\ route # None
    /\ verdict # None
    /\ profile # None
    /\ The(profile).runtime_ms = <<>>
    /\ current_time = Inf
    /\ last_time = Inf

(* C6: routing to the coder.  After a non-efficient Verdict with target
   CODER that did not end the run, the next coder call gets the Plan that
   was current at the routing (unchanged) and exactly that Verdict's patch
   text; once a coder call has returned, the pending patch is empty, and
   the routed patch reaches at most one successful coder call. *)
C6_PatchRoutedOnce ==
    /\ [][(pc = "coding" /\ route # None /\ ncalls'["coder"] = ncalls["coder"] + 1) =>
            /\ coder_arg' # None
            /\ The(coder_arg').plan = The(route).plan
            /\ The(coder_arg').plan = The(plan)
            /\ PatchText(The(coder_arg').patch) = PatchText(The(route).patch)
            /\ PatchText(The(route).patch) = PatchText(The(verdict).patch)]_vars
    /\ [][(pc = "coding" /\ pc' = "profiling") =>
            (pending_patch' = None \/ pending_patch' = Some(""))]_vars
    /\ [](delivered <= 1)

C6_Witness ==
    /\ pc = "profiling"
    /\ iter_idx >= 1
    /\ coder_arg # None
    /\ The(coder_arg).patch = Some("P1")
    /\ The(verdict).patch = Some("P1")
    /\ The(verdict).target_agent = Some("CODER")
    /\ pending_patch = None
    /\ delivered = 1

(* C7: routing to the planner.  A re-planning request at which the planning
   collaborator succeeds installs the returned Plan for the next coder
   call, which receives no patch, and counts no agent failure. *)
C7_ReplanInstallsPlan ==
    [][(pc = "replanning" /\ ncalls'["replanner"] = ncalls["replanner"] + 1
          /\ replan_collab' # None) =>
            /\ plan' = replan_collab'
            /\ agent_failures' = agent_failures
            /\ ~Truthy(pending_patch')]_vars

(* C8: iteration cap.  At most max_iterations coder calls are made, and a
   run that leaves the loop without an efficient Verdict ends with status
   'failed' whose last_verdict is the Verdict of the most recent successful
   analyst call. *)
C8_CapEndsFailedWithLastVerdict ==
    /\ ncalls["coder"] <= max_iter
    /\ (/\ pc = "done"
        /\ iter_idx + 1 = max_iter
        /\ raised # Some("ZeroDivisionError")
        /\ (result # None =>
              The(result).status \notin {"success", "agent_failure",
                                         "static_prune_failed"}))
       => /\ result # None
          /\ The(result).status = "failed"
          /\ verdict # None
          /\ The(result).last_verdict = verdict

(* C9: a coding, profiling or analysing call that fails while the failure
   counter stays below the maximum does not advance the iteration index:
   the run goes on in the same iteration. *)
C9_FailureKeepsIteration ==
    [][(LoopCallFails /\ pc # "replanning" /\ agent_failures' < max_failures) =>
            /\ iter_idx' = iter_idx
            /\ pc' # "done"]_vars

(* C10: the producer failure that brings the counter to the maximum ends the
   run at once with status 'agent_failure', whose error names the phase of
   the call that just failed; no further producer call is made. *)
C10_BudgetAbortNamesPhase ==
    /\ [][(agent_failures' # agent_failures /\ agent_failures' = 2) =>
            /\ pc' = "done"
            /\ raised' = None
            /\ result' # None
            /\ The(result').status = "agent_failure"
            /\ The(result').details # None
            /\ The(result').error =
                 Some(CASE pc = "planning"   -> "Planner failed"
                        [] pc = "pruning"    -> "Static Pruner failed"
                        [] pc = "coding"     -> "Coder failed"
                        [] pc = "profiling"  -> "Profiler failed"
                        [] pc = "analyzing"  -> "Analyst failed"
                        [] pc = "replanning" -> "Planner re-planning failed")
            /\ \A a \in Producers :
                 ncalls'[a] = ncalls[a] + (IF a = CASE pc = "coding" -> "coder"
                                                    [] pc = "profiling" -> "profiler"
                                                    [] pc = "analyzing" -> "analyst"
                                                    [] pc = "replanning" -> "replanner"
                                                    [] OTHER -> "none"
                                           THEN 1 ELSE 0)]_vars
    /\ []Terminal

C10_Witness ==
    /\ pc = "done"
    /\ agent_failures = 2
    /\ result # None
    /\ The(result).status = "agent_failure"
    /\ The(result).error = Some("Profiler failed")
    /\ iter_idx = 2

(* C11: every producer failure that leaves the counter below the maximum is
   followed by a retry; 'agent_failure' is returned only with the counter at
   or above the maximum (initial planning included). *)
C11_AgentFailureOnlyAtBudget ==
    (pc = "done" /\ result # None /\ The(result).status = "agent_failure")
        => agent_failures >= max_failures

(* C12: one failure counter for the whole run: 0 at the start, plus one for
   every producer call that raises, in any phase, never decreased or reset
   by a call that returns; the second failure of a run ends it, whatever
   succeeded in between. *)
C12_SingleFailureCounter ==
    /\ [](agent_failures = nfailed)
    /\ [][agent_failures' >= agent_failures]_vars
    /\ [][nfailed' # nfailed => agent_failures' = agent_failures + 1]_vars
    /\ []((\A a \in Producers : ncalls[a] = 0) => agent_failures = 0)
    /\ [](nfailed >= 2 =>
            /\ pc = "done"
            /\ result # None
            /\ The(result).status = "agent_failure")

C12_Witness ==
    /\ pc = "done"
    /\ result # None
    /\ The(result).status = "agent_failure"
    /\ The(result).error = Some("Analyst failed")
    /\ agent_failures = 2
    /\ iter_idx = 2
    /\ ncalls["coder"] = 3
    /\ ncalls["profiler"] = 2
    /\ ncalls["analyst"] = 2

(* ============================== Profiler ============================== *)
(* Profiler.run and its helpers (agents/profiler.py).  The compiler and   *)
(* the timed execution of the binary are the environment: every outcome   *)
(* subprocess.run can have is a choice of the step that invokes it.  The   *)
(* file system is taken to be reliable (writing the source and copying    *)
(* the binary do not fail).                                               *)

\* n_max = 100000
n_max == 100000

\* scales = [1000, 5000, 10000, 50000, 100000]
scales == <<1000, 5000, 10000, 50000, 100000>>

\* range(2) of "for attempt in range(2)"
compile_attempts == 2

\* peak_mb = 1.0, the estimate used when the resident set size is missing
fallback_peak_mb == 1

\* The decimal digits of a natural number, as str() writes them.
RECURSIVE Decimal(_)
Decimal(n) == IF n < 10 THEN <<n>> ELSE Append(Decimal(n \div 10), n % 10)

\* _generate_input_for_size: f"{n}\n"
GenerateInputForSize(n) == [digits |-> Decimal(n), newline |-> TRUE]

\* Variant: the corner cases are appended after the scales.
PrepareInputsCornersLast(c) ==
    LET sizes_log == SelectSeq(scales, LAMBDA x : x <= n_max)
        sizes     == sizes_log \o <<0, 1>>
    IN [input_sizes     |-> sizes,
        input_data_list |-> [k \in 1..Len(sizes) |->
                                GenerateInputForSize(sizes[k])]]

\* _prepare_inputs(code): the sizes and one generated input per size.
PrepareInputs(c) ==
    LET sizes_log == SelectSeq(scales, LAMBDA x : x <= n_max)
        sizes     == <<0, 1>> \o sizes_log
    IN [input_sizes     |-> sizes,
        input_data_list |-> [k \in 1..Len(sizes) |->
                                GenerateInputForSize(sizes[k])]]

\* What one invocation of g++ through subprocess.run(check=True, timeout=30)
\* can do: return, raise CalledProcessError carrying the compiler's stderr,
\* raise TimeoutExpired, or fail to start the compiler (OSError).
CompilerOutcomes ==
    {[kind |-> "ok", stderr |-> ""],
     [kind |-> "CalledProcessError", stderr |-> "E1"],
     [kind |-> "CalledProcessError", stderr |-> "E2"],
     [kind |-> "TimeoutExpired", stderr |-> ""],
     [kind |-> "OSError", stderr |-> ""]}

\* error_msg of the two except blocks of _compile_cpp:
\*   f"Compilation failed (attempt {attempt + 1}): {e.stderr}"
\*   f"Compilation timeout (attempt {attempt + 1})"
ErrorMsg(o, a) ==
    IF o.kind = "CalledProcessError"
    THEN [text |-> "Compilation failed", attempt |-> a + 1, stderr |-> o.stderr]
    ELSE [text |-> "Compilation timeout", attempt |-> a + 1, stderr |-> ""]

\* Variant: the first failed attempt is already the last one.
IsLastAttemptFirst(a) == a = 0

\* if attempt == 1: raise SandboxError("compile", error_msg)
IsLastAttempt(a) == a = 1

\* The telemetry text of the time command, by what the parser looks for in
\* it: the "Elapsed (wall clock) time" line (minutes, seconds in ms), the
\* word "real", the "real <m>m<s>s" line, the "Maximum resident set size"
\* line (kbytes).
TimeOutputs ==
    {[wall |-> Some(<<0, 5>>), real_word |-> FALSE, real |-> None,
      rss |-> Some(2048)],
     [wall |-> Some(<<0, 0>>), real_word |-> FALSE, real |-> None,
      rss |-> None],
     [wall |-> None, real_word |-> TRUE, real |-> Some(<<0, 0>>),
      rss |-> None],
     [wall |-> None, real_word |-> TRUE, real |-> None, rss |-> Some(2048)],
     [wall |-> None, real_word |-> FALSE, real |-> None, rss |-> Some(2048)]}

\* What subprocess.run([time_cmd, "-v", binary], timeout=...) can do: the
\* process exits (return code, telemetry on stderr), the timeout expires, or
\* the process cannot be started.
ExecOutcomes ==
    {[kind |-> "exit", returncode |-> Some(0), stderr |-> Some(t)] :
        t \in TimeOutputs}
    \cup {[kind |-> "exit", returncode |-> Some(1), stderr |-> Some(t)] :
            t \in {x \in TimeOutputs : x.wall = Some(<<0, 5>>)}}
    \cup {[kind |-> k, returncode |-> None, stderr |-> None] :
            k \in {"TimeoutExpired", "OSError"}}

\* _execute_binary: (stdout, stderr) of a run that exited with code 0; every
\* other outcome leaves as RuntimeError.
ExecuteBinary(o) ==
    IF o.kind = "exit" /\ o.returncode = Some(0)
    THEN [raised |-> "", time_output |-> o.stderr]
    ELSE [raised |-> "RuntimeError", time_output |-> None]

\* (int(mins) * 60 + float(secs)) * 1000, with the seconds given in ms
RuntimeMs(ms) == (ms[1] * 60) * 1000 + ms[2]

\* rss_kb / 1024.0 (TimeOutputs holds multiples of 1024 only)
PeakMb(rss_kb) == rss_kb \div 1024

\* _parse_time_output
ParseTimeOutput(t) ==
    LET wall == IF t.wall # None THEN Some(RuntimeMs(The(t.wall)))
                ELSE IF t.real_word /\ t.real # None
                     THEN Some(RuntimeMs(The(t.real)))
                     ELSE None
    IN IF wall = None
       THEN [raised |-> "ParseError", runtime_ms |-> 0, peak_mb |-> 0]
       ELSE [raised     |-> "",
             runtime_ms |-> The(wall),
             peak_mb    |-> IF t.rss = None THEN fallback_peak_mb
                            ELSE PeakMb(The(t.rss))]

\* The try block of the execution loop (lines 88-89): _execute_binary, then
\* _parse_time_output on its second result.
Measure(o) ==
    LET ex == ExecuteBinary(o) IN
    IF ex.raised # ""
    THEN [raised |-> ex.raised, runtime_ms |-> 0, peak_mb |-> 0]
    ELSE ParseTimeOutput(The(ex.time_output))

\* Variant: a failed point is recorded as a zero runtime.
RuntimesAfterZeroOnFailure(rs, m) ==
    Append(rs, IF m.raised # "" THEN 0 ELSE m.runtime_ms)

\* runtimes.append(runtime_ms) / runtimes.append(float('inf'))
RuntimesAfter(rs, m) ==
    Append(rs, IF m.raised # "" THEN Inf ELSE m.runtime_ms)

\* Variant: a failed point records no memory value.
MemoriesAfterSkipFailure(ms, m) ==
    IF m.raised # "" THEN ms ELSE Append(ms, m.peak_mb)

\* memories.append(peak_mem_mb) / memories.append(float('inf'))
MemoriesAfter(ms, m) ==
    Append(ms, IF m.raised # "" THEN Inf ELSE m.peak_mb)

\* hotspots["_crash"] = str(e)
HotspotsAfter(h, m) ==
    IF m.raised # "" THEN {x \in h : x[1] # "_crash"} \cup {<<"_crash", "str(e)">>}
    ELSE h

\* hotspots.update(self._collect_gprof(...)) when debug is set
CollectGprof(h, debug) ==
    IF debug
    THEN {x \in h : x[1] # "_note"}
         \cup {<<"_note", "gprof collection requires source code access">>}
    ELSE h

\* Profiler.run is called on its own, as the tests of the profiler do.
ControllerNotStarted ==
    /\ pc = "idle"
    /\ max_iter = 0
    /\ iter_idx = 0
    /\ agent_failures = 0
    /\ plan = None
    /\ pending_patch = None
    /\ last_time = Inf
    /\ current_time = Inf
    /\ code = None
    /\ profile = None
    /\ verdict = None
    /\ result = None
    /\ raised = None
    /\ ncalls = [a \in Producers |-> 0]
    /\ coder_arg = None
    /\ route = None
    /\ delivered = 0
    /\ divisions = 0
    /\ gate = ""
    /\ replan_collab = None
    /\ nfailed = 0

\* Entry of Profiler.run(code, debug=...)
ProfilerInit ==
    /\ ControllerNotStarted
    /\ AnalystNotStarted
    /\ BatchNotStarted
    /\ prof_pc = "prepare"
    /\ prof_code \in {Some(c) : c \in Sources}
    /\ prof_debug \in BOOLEAN
    /\ input_sizes = <<>>
    /\ input_data_list = <<>>
    /\ attempt = 0
    /\ size_idx = 0
    /\ error_msg = None
    /\ binary_path = None
    /\ runtimes = <<>>
    /\ memories = <<>>
    /\ hotspots = {}
    /\ prof_return = None
    /\ prof_raised = None
    /\ compile_log = <<>>
    /\ measured = <<>>
    /\ last_exec = None

\* Line 71: input_sizes, input_data_list = self._prepare_inputs(code)
PrepareStep ==
    /\ prof_pc = "prepare"
    /\ LET r == PrepareInputs(The(prof_code)) IN
       /\ input_sizes' = r.input_sizes
       /\ input_data_list' = r.input_data_list
    /\ prof_pc' = "compile"
    /\ attempt' = 0
    /\ UNCHANGED <<prof_code, prof_debug, size_idx, error_msg, binary_path,
                   runtimes, memories, hotspots, prof_return, prof_raised,
                   compile_log, measured, last_exec>>
    /\ UNCHANGED <<ctl_vars, an_vars, batch_vars>>

\* Lines 75 and 162-197: one pass of the loop of _compile_cpp.  A return
\* leaves _compile_cpp (its locals attempt and error_msg end with it) and
\* enters the execution loop; SandboxError and every exception that is not
\* caught leave Profiler.run.
CompileStep ==
    /\ prof_pc = "compile"
    /\ attempt < compile_attempts
    /\ \E o \in CompilerOutcomes :
         /\ compile_log' = Append(compile_log, o)
         /\ CASE o.kind = "ok" ->
                   /\ binary_path' = Some([binary_of |-> The(prof_code)])
                   /\ prof_pc' = "execute"
                   /\ attempt' = 0
                   /\ error_msg' = None
                   /\ UNCHANGED prof_raised
              [] o.kind \in {"CalledProcessError", "TimeoutExpired"} ->
                   /\ error_msg' = Some(ErrorMsg(o, attempt))
                   /\ IF IsLastAttempt(attempt)
                      THEN /\ prof_raised' =
                                Some([type    |-> "SandboxError",
                                      code    |-> "compile",
                                      message |-> ErrorMsg(o, attempt)])
                           /\ prof_pc' = "done"
                           /\ UNCHANGED attempt
                      ELSE /\ attempt' = attempt + 1
                           /\ prof_pc' = IF attempt + 1 < compile_attempts
                                         THEN "compile" ELSE "execute"
                           /\ UNCHANGED prof_raised
                   /\ UNCHANGED binary_path
              [] o.kind = "OSError" ->
                   /\ prof_raised' = Some([type    |-> "OSError",
                                           code    |-> "",
                                           message |-> ErrorMsg(o, attempt)])
                   /\ prof_pc' = "done"
                   /\ UNCHANGED <<attempt, error_msg, binary_path>>
    /\ UNCHANGED <<prof_code, prof_debug, input_sizes, input_data_list,
                   size_idx, runtimes, memories, hotspots, prof_return,
                   measured, last_exec>>
    /\ UNCHANGED <<ctl_vars, an_vars, batch_vars>>

\* Variant: the ladder is walked from its last entry.
LadderEntryFromEnd(ladder, i) == ladder[Len(ladder) - i]

\* Line 83: the entry enumerate(zip(...)) yields in pass i (from 0)
LadderEntry(ladder, i) == ladder[i + 1]

\* Lines 83-100: one pass of the execution loop, over zip(input_sizes,
\* input_data_list).
ExecuteStep ==
    /\ prof_pc = "execute"
    /\ size_idx < Len(input_sizes)
    /\ size_idx < Len(input_data_list)
    /\ \E o \in ExecOutcomes :
         LET m == Measure(o) IN
         /\ runtimes' = RuntimesAfter(runtimes, m)
         /\ memories' = MemoriesAfter(memories, m)
         /\ hotspots' = HotspotsAfter(hotspots, m)
         /\ last_exec' = Some(o)
         /\ measured' = Append(measured,
                               [n          |-> LadderEntry(input_sizes, size_idx),
                                input_data |-> LadderEntry(input_data_list,
                                                           size_idx),
                                binary     |-> binary_path,
                                failed     |-> m.raised # "",
                                runtime_ms |-> m.runtime_ms,
                                peak_mb    |-> m.peak_mb])
    /\ size_idx' = size_idx + 1
    /\ UNCHANGED <<prof_pc, prof_code, prof_debug, input_sizes,
                   input_data_list, attempt, error_msg, binary_path,
                   prof_return, prof_raised, compile_log>>
    /\ UNCHANGED <<ctl_vars, an_vars, batch_vars>>

\* Lines 102-121: the optional hotspot collection, then the ProfileReport.
ReportStep ==
    /\ prof_pc = "execute"
    /\ ~(size_idx < Len(input_sizes) /\ size_idx < Len(input_data_list))
    /\ hotspots' = CollectGprof(hotspots, prof_debug)
    /\ prof_return' = Some([input_sizes    |-> input_sizes,
                            runtime_ms     |-> runtimes,
                            peak_memory_mb |-> memories,
                            hotspots       |-> CollectGprof(hotspots, prof_debug)])
    /\ prof_pc' = "done"
    /\ UNCHANGED <<prof_code, prof_debug, input_sizes, input_data_list,
                   attempt, size_idx, error_msg, binary_path, runtimes,
                   memories, prof_raised, compile_log, measured, last_exec>>
    /\ UNCHANGED <<ctl_vars, an_vars, batch_vars>>

ProfilerNext ==
    \/ PrepareStep
    \/ CompileStep
    \/ ExecuteStep
    \/ ReportStep

ProfilerSpec == ProfilerInit /\ [][ProfilerNext]_vars

(* ====================== properties of Profiler.run ==================== *)

\* The latest execution ended as a failure of the execution itself: the
\* timeout expired, the exit code was not 0, or the process did not run.
ExecutionFailed(o) ==
    \/ o.kind \in {"TimeoutExpired", "OSError"}
    \/ o.kind = "exit" /\ o.returncode # Some(0)

\* The binary exited with code 0 within the timeout, and neither form of the
\* wall-clock line is found in the telemetry.
WallClockUnparsed(o) ==
    /\ o.kind = "exit"
    /\ o.returncode = Some(0)
    /\ ParseTimeOutput(The(o.stderr)).raised = "ParseError"

(* C13: every ProfileReport returned by Profiler.run has input_sizes,
   runtime_ms and peak_memory_mb of equal length, and entry k of runtime_ms
   and of peak_memory_mb is what the k-th execution recorded, which was fed
   the input generated for input_sizes[k]; this for every combination of
   succeeding and failing sizes. *)
C13_EqualLengths ==
    prof_return # None =>
        LET p == The(prof_return) IN
        /\ Len(p.runtime_ms) = Len(p.input_sizes)
        /\ Len(p.peak_memory_mb) = Len(p.input_sizes)
        /\ Len(measured) = Len(p.input_sizes)
        /\ \A k \in 1..Len(p.input_sizes) :
             /\ measured[k].n = p.input_sizes[k]
             /\ measured[k].input_data = GenerateInputForSize(p.input_sizes[k])
             /\ measured[k].failed \/ p.runtime_ms[k] = measured[k].runtime_ms
             /\ measured[k].failed \/ p.peak_memory_mb[k] = measured[k].peak_mb

C13_Witness ==
    /\ prof_return # None
    /\ Len(The(prof_return).input_sizes) = 7
    /\ measured[1].failed
    /\ ~measured[2].failed
    /\ measured[3].failed
    /\ ~measured[4].failed
    /\ measured[7].failed
    /\ The(prof_return).runtime_ms[2] = 5
    /\ The(prof_return).peak_memory_mb[4] = 1

(* C14: failure isolation.  An execution that times out, exits with a
   non-zero code or cannot be run appends the infinite sentinel to both
   runtimes and memories at its position and leaves Profiler.run in the
   execution loop, without an exception and without a report; while sizes
   remain the next execution is the only step possible, so a call whose
   compilation succeeded ends with a report over every size of the ladder. *)
C14_FailureIsolated ==
    /\ [][(size_idx' = size_idx + 1 /\ ExecutionFailed(The(last_exec')))
            => /\ runtimes' = Append(runtimes, Inf)
               /\ memories' = Append(memories, Inf)
               /\ Len(runtimes') = size_idx'
               /\ prof_pc' = "execute"
               /\ prof_raised' = None
               /\ prof_return' = None]_vars
    /\ []((prof_pc = "execute" /\ size_idx < Len(input_sizes))
            => ENABLED ExecuteStep /\ ~ENABLED ReportStep)
    /\ []((prof_pc = "done" /\ binary_path # None)
            => /\ prof_raised = None
               /\ prof_return # None
               /\ Len(measured) = Len(PrepareInputs(The(prof_code)).input_sizes))

C14_Witness ==
    /\ prof_return # None
    /\ The(prof_return).runtime_ms[2] = Inf
    /\ The(prof_return).peak_memory_mb[2] = Inf
    /\ The(prof_return).runtime_ms[3] = 5
    /\ The(prof_return).peak_memory_mb[3] = 2
    /\ The(prof_return).runtime_ms[7] = Inf
    /\ The(last_exec).kind = "TimeoutExpired"
    /\ Len(measured) = 7

\* The compiler invocation reported a compiler error or ran into the timeout.
CompileFailed(o) == o.kind \in {"CalledProcessError", "TimeoutExpired"}

(* C15: the compiler is invoked at most twice per call of Profiler.run.  A
   failed first attempt is followed by a second one, and a second attempt
   that succeeds yields the binary and enters the execution loop.  Two
   failed attempts (compiler error or timeout) raise SandboxError("compile")
   whose message is the one built from the second attempt, and then no size
   has been executed and no report is returned. *)
C15_CompileAtMostTwice ==
    /\ [](Len(compile_log) <= 2)
    /\ [][(Len(compile_log) = 0 /\ Len(compile_log') = 1
             /\ CompileFailed(compile_log'[1]))
            => /\ prof_pc' = "compile"
               /\ attempt' = 1
               /\ attempt' < compile_attempts
               /\ prof_raised' = None]_vars
    /\ [][(Len(compile_log) = 1 /\ Len(compile_log') = 2
             /\ compile_log'[2].kind = "ok")
            => /\ binary_path' = Some([binary_of |-> The(prof_code)])
               /\ prof_pc' = "execute"
               /\ prof_raised' = None]_vars
    /\ []((Len(compile_log) = 2 /\ CompileFailed(compile_log[1])
             /\ CompileFailed(compile_log[2]))
            => /\ prof_pc = "done"
               /\ prof_raised # None
               /\ The(prof_raised).type = "SandboxError"
               /\ The(prof_raised).code = "compile"
               /\ The(prof_raised).message = ErrorMsg(compile_log[2], 1)
               /\ The(prof_raised).message.attempt = 2
               /\ The(prof_raised).message.stderr = compile_log[2].stderr
               /\ measured = <<>>
               /\ binary_path = None
               /\ prof_return = None)

C15_Witness ==
    /\ Len(compile_log) = 2
    /\ compile_log[1] = [kind |-> "CalledProcessError", stderr |-> "E1"]
    /\ compile_log[2].kind = "ok"
    /\ prof_return # None
    /\ measured[7].binary = Some([binary_of |-> The(prof_code)])
    /\ The(prof_return).runtime_ms[7] = 5

\* Two failed attempts with different diagnostics: the second one is raised.
C15_TwoFailures ==
    /\ Len(compile_log) = 2
    /\ compile_log[1] = [kind |-> "CalledProcessError", stderr |-> "E1"]
    /\ compile_log[2] = [kind |-> "CalledProcessError", stderr |-> "E2"]
    /\ prof_raised # None
    /\ The(prof_raised).message.stderr = "E2"

(* C16: when the binary exits with code 0 within the timeout and the
   wall-clock line of the telemetry cannot be parsed, the point is not
   recorded as a failed execution: it gets an estimate, not the infinite
   sentinel, and no crash is noted for it. *)
C16_ParseErrorIsNotAFailure ==
    (last_exec # None /\ WallClockUnparsed(The(last_exec)))
        => /\ runtimes[size_idx] # Inf
           /\ memories[size_idx] # Inf
           /\ <<"_crash", "str(e)">> \notin hotspots

(* C17: the size ladder is the same for every call (whatever the code and
   the debug flag), starts with 0 and 1 and is strictly increasing; one
   input is generated per ladder entry, and the executions are fed these
   inputs one per size, in ladder order, until every size has been executed
   once. *)
C17_SizeLadder ==
    /\ [](prof_pc \notin {"idle", "prepare"} =>
            /\ input_sizes = <<0, 1, 1000, 5000, 10000, 50000, 100000>>
            /\ \A c \in Sources : PrepareInputs(c).input_sizes = input_sizes
            /\ \A j, k \in 1..Len(input_sizes) :
                 j < k => input_sizes[j] < input_sizes[k]
            /\ Len(input_data_list) = Len(input_sizes)
            /\ \A k \in 1..Len(input_sizes) :
                 input_data_list[k] = GenerateInputForSize(input_sizes[k])
            /\ \A j, k \in 1..Len(input_sizes) :
                 j # k => input_data_list[j] # input_data_list[k])
    /\ [](/\ Len(measured) = size_idx
          /\ \A k \in 1..Len(measured) :
               /\ measured[k].n = input_sizes[k]
               /\ measured[k].input_data = input_data_list[k])
    /\ [][Len(measured') \in {Len(measured), Len(measured) + 1}]_vars
    /\ [](prof_return # None => Len(measured) = Len(input_sizes))

C17_Witness ==
    /\ prof_return # None
    /\ prof_code = Some("srcB")
    /\ prof_debug
    /\ The(prof_return).input_sizes = <<0, 1, 1000, 5000, 10000, 50000, 100000>>
    /\ Len(measured) = 7
    /\ measured[1].n = 0
    /\ measured[3].input_data = [digits |-> <<1, 0, 0, 0>>, newline |-> TRUE]
    /\ measured[7].n = 100000

(* ============================== Analyst =============================== *)
(* Analyst.run and its helpers (agents/analyst.py).  The chat completion  *)
(* service is the environment: its reply, or its failure, is a choice of  *)
(* the step that sends the request.  Texts that the code searches are     *)
(* sequences of characters.  The fit is computed in exact arithmetic on   *)
(* data whose base-10 logarithms are integers.                            *)

\* valid_complexities of _llm_complexity_analysis, in its order
valid_complexities ==
    <<"O(1)", "O(log n)", "O(n)", "O(n log n)", "O(n^2)", "O(n^3)", "O(2^n)",
      "O(n!)">>

\* The characters of a label.
Chars(l) ==
    CASE l = "O(1)"       -> <<"O", "(", "1", ")">>
      [] l = "O(log n)"   -> <<"O", "(", "l", "o", "g", " ", "n", ")">>
      [] l = "O(n)"       -> <<"O", "(", "n", ")">>
      [] l = "O(n log n)" -> <<"O", "(", "n", " ", "l", "o", "g", " ", "n", ")">>
      [] l = "O(n^2)"     -> <<"O", "(", "n", "^", "2", ")">>
      [] l = "O(n^3)"     -> <<"O", "(", "n", "^", "3", ")">>
      [] l = "O(2^n)"     -> <<"O", "(", "2", "^", "n", ")">>
      [] l = "O(n!)"      -> <<"O", "(", "n", "!", ")">>
      [] l = "O(n^k)"     -> <<"O", "(", "n", "^", "k", ")">>
      [] l = "O(?)"       -> <<"O", "(", "?", ")">>

UpperCase ==
    <<"A", "B", "C", "D", "E", "F", "G", "H", "I", "J", "K", "L", "M", "N",
      "O", "P", "Q", "R", "S", "T", "U", "V", "W", "X", "Y", "Z">>

LowerCase ==
    <<"a", "b", "c", "d", "e", "f", "g", "h", "i", "j", "k", "l", "m", "n",
      "o", "p", "q", "r", "s", "t", "u", "v", "w", "x", "y", "z">>

\* str.lower()
LowerText(t) ==
    [i \in 1..Len(t) |->
        IF \E k \in 1..Len(UpperCase) : UpperCase[k] = t[i]
        THEN LowerCase[CHOOSE k \in 1..Len(UpperCase) : UpperCase[k] = t[i]]
        ELSE t[i]]

\* str.replace(" ", "")
RemoveSpaces(t) == SelectSeq(t, LAMBDA ch : ch # " ")

\* str.strip()
RECURSIVE Strip(_)
Strip(t) ==
    IF t = <<>> THEN t
    ELSE IF t[1] \in {" ", "\n"} THEN Strip(Tail(t))
    ELSE IF t[Len(t)] \in {" ", "\n"} THEN Strip(SubSeq(t, 1, Len(t) - 1))
    ELSE t

\* sub in t
Contains(t, sub) ==
    \E i \in 0..(Len(t) - Len(sub)) : SubSeq(t, i + 1, i + Len(sub)) = sub

\* t.count(ch) for a single character
Count(t, ch) == Cardinality({i \in 1..Len(t) : t[i] = ch})

\* Lines 185-211: the label read out of the (stripped) reply.
NormaliseReply(c) ==
    LET hits == {k \in 1..Len(valid_complexities) :
                    \/ Contains(LowerText(c),
                                LowerText(Chars(valid_complexities[k])))
                    \/ Contains(RemoveSpaces(c),
                                RemoveSpaces(Chars(valid_complexities[k])))}
    IN IF hits # {}
       THEN valid_complexities[CHOOSE k \in hits : \A j \in hits : k <= j]
       ELSE IF Contains(c, <<"n", "^", "2">>) \/ Contains(c, <<"n", "²">>)
       THEN "O(n^2)"
       ELSE IF \/ Contains(c, <<"n", " ", "l", "o", "g", " ", "n">>)
               \/ Contains(c, <<"n", "l", "o", "g", "n">>)
       THEN "O(n log n)"
       ELSE IF \/ Contains(c, <<"l", "o", "g", " ", "n">>)
               \/ Contains(c, <<"l", "o", "g", "n">>)
       THEN "O(log n)"
       ELSE IF Count(c, "n") = 1 /\ ~Contains(c, <<"^">>)
       THEN "O(n)"
       ELSE IF \/ Contains(c, <<"1">>)
               \/ Contains(LowerText(c),
                           <<"c", "o", "n", "s", "t", "a", "n", "t">>)
       THEN "O(1)"
       ELSE "O(?)"

\* _llm_complexity_analysis, given what the request did: out is None when
\* the request (or reading the reply) raised, else the reply's content.
LlmComplexityAnalysis(out) ==
    IF out = None THEN "O(?)" ELSE NormaliseReply(Strip(The(out)))

\* t > 0 and t != float('inf')
IsValidRuntime(t) == t > 0 /\ t # Inf

\* sequence[:k]
Take(s, k) == SubSeq(s, 1, IF k < Len(s) THEN k ELSE Len(s))

\* math.log10 on the powers of ten of the input domains; it raises
\* ValueError for an argument that is not positive.
Log10(v) ==
    CASE v = 1     -> 0
      [] v = 10    -> 1
      [] v = 100   -> 2
      [] v = 1000  -> 3
      [] v = 10000 -> 4
      [] v = 100000 -> 5

\* base-2 logarithm of a power of two (see LogOf)
Log2(v) ==
    CASE v = 1 -> 0
      [] v = 2 -> 1
      [] v = 4 -> 2
      [] v = 8 -> 3
      [] v = 16 -> 4

RECURSIVE SumSeq(_)
SumSeq(s) == IF s = <<>> THEN 0 ELSE s[1] + SumSeq(Tail(s))

\* zip(a, b) mapped through a product
Products(a, b) ==
    [i \in 1..(IF Len(a) < Len(b) THEN Len(a) ELSE Len(b)) |-> a[i] * b[i]]

\* Lines 35-44: the regression.  The slope is num / den; r2_low tells
\* whether r_squared < 0.7, from
\*   ss_res = sum(res[i]^2) / (n * den)^2,  ss_tot = sum(dev[i]^2) / len(ys)^2.
LinearFit(xs, ys) ==
    LET n   == Len(xs)
        sx  == SumSeq(xs)
        sy  == SumSeq(ys)
        num == n * SumSeq(Products(xs, ys)) - sx * sy
        den == n * SumSeq(Products(xs, xs)) - sx * sx
        m   == IF Len(xs) < Len(ys) THEN Len(xs) ELSE Len(ys)
        res == [i \in 1..m |-> n * den * ys[i] - n * num * xs[i]
                                 - den * sy + num * sx]
        dev == [i \in 1..Len(ys) |-> Len(ys) * ys[i] - sy]
        ss_res_num == SumSeq(Products(res, res))
        ss_tot_num == SumSeq(Products(dev, dev))
    IN [num |-> num,
        den |-> den,
        r2_low |-> IF ss_tot_num > 0
                   THEN 10 * ss_res_num * Len(ys) * Len(ys)
                          > 3 * ss_tot_num * (n * den) * (n * den)
                   ELSE TRUE]

\* low <= slope <= high for a slope num / den with den > 0 and bounds in tenths
SlopeWithin(num, den, low10, high10) ==
    low10 * den <= 10 * num /\ 10 * num <= high10 * den

\* Lines 99-113: both a significant increase and a significant decrease
NoisyData(rts) ==
    /\ Len(rts) >= 4
    /\ \E i \in 2..Len(rts) : 10 * rts[i] > 11 * rts[i - 1]
    /\ \E i \in 2..Len(rts) : /\ ~(10 * rts[i] > 11 * rts[i - 1])
                              /\ 10 * rts[i] < 9 * rts[i - 1]

\* max(input_sizes) / min(input_sizes) < 10, on positive sizes
SmallSizeRange(sizes) ==
    /\ Len(sizes) >= 2
    /\ \E i, j \in 1..Len(sizes) :
         /\ \A k \in 1..Len(sizes) : sizes[k] <= sizes[i] /\ sizes[j] <= sizes[k]
         /\ sizes[i] < 10 * sizes[j]

\* Variant: the bounds of the three slope bands are excluded.
IsCurveAmbiguousOpenBands(fit, rts, sizes) ==
    \/ fit.r2_low
    \/ 4 * fit.den < 10 * fit.num /\ 10 * fit.num < 6 * fit.den
    \/ 13 * fit.den < 10 * fit.num /\ 10 * fit.num < 17 * fit.den
    \/ 23 * fit.den < 10 * fit.num /\ 10 * fit.num < 27 * fit.den
    \/ NoisyData(rts)
    \/ 2 * fit.num < -fit.den
    \/ fit.num > 10 * fit.den
    \/ SmallSizeRange(sizes)

\* _is_curve_ambiguous(slope, r_squared, runtimes, input_sizes)
IsCurveAmbiguous(fit, rts, sizes) ==
    \/ fit.r2_low
    \/ SlopeWithin(fit.num, fit.den, 4, 6)
    \/ SlopeWithin(fit.num, fit.den, 13, 17)
    \/ SlopeWithin(fit.num, fit.den, 23, 27)
    \/ NoisyData(rts)
    \/ 2 * fit.num < -fit.den
    \/ fit.num > 10 * fit.den
    \/ SmallSizeRange(sizes)

\* Variant: the quadratic band is labelled as a higher polynomial.
SlopeLabelNoQuadratic(num, den) ==
    IF 2 * num < den THEN "O(1)"
    ELSE IF 2 * num < 3 * den THEN "O(n)"
    ELSE "O(n^k)"

\* Lines 55-63: the label of a slope num / den, den > 0
SlopeLabel(num, den) ==
    IF 2 * num < den THEN "O(1)"
    ELSE IF 2 * num < 3 * den THEN "O(n)"
    ELSE IF 2 * num < 5 * den THEN "O(n^2)"
    ELSE "O(n^k)"

\* Variant: every valid runtime keeps the size of its own position.
FittedSizesOwn(report) ==
    LET idx == SelectSeq([i \in 1..Len(report.runtime_ms) |-> i],
                         LAMBDA i : IsValidRuntime(report.runtime_ms[i]))
    IN [k \in 1..Len(idx) |-> report.input_sizes[idx[k]]]

\* report.input_sizes[:len(valid_runtimes)], the sizes the valid runtimes are
\* fitted against
FittedSizes(report) ==
    Take(report.input_sizes, Len(SelectSeq(report.runtime_ms, IsValidRuntime)))

\* Sizes and runtimes that are all powers of two.
IsBinary(report) ==
    /\ \A i \in 1..Len(report.input_sizes) :
          report.input_sizes[i] \in {1, 2, 4, 8, 16}
    /\ \A i \in 1..Len(report.runtime_ms) :
          report.runtime_ms[i] \in {1, 2, 4, 8, 16, Inf}

\* The logarithm _curve_fit takes of a value of the report.  The slope and
\* R^2 of a log-log regression do not depend on the base of the logarithm,
\* so a report of powers of two is fitted in base 2, where the logarithms
\* are integers, and every other report in base 10.
LogOf(report, v) == IF IsBinary(report) THEN Log2(v) ELSE Log10(v)

\* xs of line 31
LogSizes(report) ==
    [i \in 1..Len(FittedSizes(report)) |-> LogOf(report, FittedSizes(report)[i])]

\* ys of line 30
LogRuntimes(report) ==
    LET valid == SelectSeq(report.runtime_ms, IsValidRuntime)
    IN [i \in 1..Len(valid) |-> LogOf(report, valid[i])]

\* Variant: two points are enough for a fit.
TooFewPointsBelowTwo(valid) == Len(valid) < 2

\* if not valid_runtimes / if len(valid_runtimes) < 3
TooFewPoints(valid) == Len(valid) < 3

\* _curve_fit up to the point where it returns a label or turns to
\* _llm_complexity_analysis (oracle = TRUE): because the curve is ambiguous
\* (line 52), or from the except block (line 72) after log10 of a
\* non-positive size or a zero denominator of the slope.
CurveFit(report) ==
    LET valid == SelectSeq(report.runtime_ms, IsValidRuntime)
        sizes == FittedSizes(report)
    IN IF TooFewPoints(valid)
       THEN [oracle |-> FALSE, label |-> "O(1)", path |-> "too_few"]
       ELSE IF \E i \in 1..Len(sizes) : sizes[i] <= 0
       THEN [oracle |-> TRUE, label |-> "", path |-> "ValueError"]
       ELSE LET fit == LinearFit(LogSizes(report), LogRuntimes(report))
            IN IF fit.den = 0
               THEN [oracle |-> TRUE, label |-> "", path |-> "ZeroDivisionError"]
               ELSE IF IsCurveAmbiguous(fit, valid, sizes)
               THEN [oracle |-> TRUE, label |-> "", path |-> "ambiguous"]
               ELSE [oracle |-> FALSE,
                     label  |-> SlopeLabel(fit.num, fit.den),
                     path   |-> "slope"]

\* Variant: linearithmic is not counted as efficient.
IsEfficientLabelStrict(l) == l \in {"O(1)", "O(log n)", "O(n)"}

\* time_complexity in {"O(1)", "O(log n)", "O(n)", "O(n log n)"}
IsEfficientLabel(l) == l \in {"O(1)", "O(log n)", "O(n)", "O(n log n)"}

\* Variant: the coder is named as the target of every Verdict.
TargetForAlwaysCoder(efficient) == Some("CODER")

\* target_agent = TargetAgent.CODER if not efficient, else None
TargetFor(efficient) == IF efficient THEN None ELSE Some("CODER")

\* A text of several parts is empty when every part is.
IsEmptyText(t) == \A i \in 1..Len(t) : t[i] = ""

\* _generate_optimization_patch(complexity, report): the directive (its
\* opening words), or ZeroDivisionError from the memory ratio at line 256.
\* With the sentinel as a large number, peak[-1] / peak[0] > 5 is
\* peak[-1] > 5 * peak[0] when peak[0] is positive.
GenerateOptimizationPatch(complexity, report) ==
    LET pm == report.peak_memory_mb IN
    IF Len(pm) > 1 /\ pm[1] = 0
    THEN [raised |-> "ZeroDivisionError", patch |-> <<>>]
    ELSE LET high == Len(pm) > 1 /\ pm[Len(pm)] > 5 * pm[1] IN
         [raised |-> "",
          patch  |->
            IF complexity = "O(n^2)"
            THEN IF high
                 THEN <<"Replace nested loops with hash map lookup.">>
                 ELSE <<"Optimize nested loop structure.">>
            ELSE IF complexity = "O(n^k)"
                    \/ Contains(Chars(complexity), <<"n", "^">>)
            THEN <<"Reduce algorithmic complexity.">>
            ELSE IF complexity = "O(n log n)" /\ high
            THEN <<"Optimize memory usage while maintaining O(n log n) time.">>
            ELSE IF complexity = "O(n)" /\ high
            THEN <<"Reduce memory allocation.">>
            ELSE <<"Optimize ", complexity, " algorithm.">>]

(* ---------------------------- input domains --------------------------- *)

SizeLists == {<<0, 1, 10, 100>>, <<1, 10, 100, 1000>>, <<10, 10, 10, 10>>}

RuntimeLists ==
    [1..4 -> {0, 1, 10, 100, Inf}]
    \cup {<<1, 100, 10000, Inf>>, <<1, 100, 10000, 0>>}

MemoryLists == {<<1, 1, 1, 1>>, <<1, 1, 1, 5>>, <<1, 1, 1, 6>>, <<0, 1, 1, 1>>}

\* Reports with repeated or widely spaced sizes and with runtimes up to
\* 100000 ms.
WideReports ==
    {[input_sizes |-> sz, runtime_ms |-> rt, peak_memory_mb |-> <<1, 1, 1, 6>>] :
        sz \in {<<1, 1, 10, 100>>, <<1, 1000, 10000, 100000>>,
                <<1, 10, 100, 1000>>},
        rt \in {<<1, 1, 1000, Inf>>, <<1, 10000, 1000, Inf>>,
                <<1, 10000, 1000, 100000>>, <<1, 10, 100, 10000>>,
                <<1, 10, 1000, 100000>>, <<Inf, 1, 10, 100>>}}

\* Reports whose sizes and runtimes are powers of two.
BinaryReports ==
    {[input_sizes |-> sz, runtime_ms |-> rt, peak_memory_mb |-> <<1, 1, 1, 6>>] :
        sz \in {<<1, 2, 4, 8>>, <<1, 2, 4, 16>>},
        rt \in {<<1, 2, 4, 8>>, <<1, 2, 4, 16>>, <<1, 2, 4, Inf>>,
                <<1, 4, 16, Inf>>}}

Reports ==
    [input_sizes : SizeLists, runtime_ms : RuntimeLists,
     peak_memory_mb : MemoryLists]
    \cup WideReports
    \cup BinaryReports

\* Contents of chat completion replies.
OracleReplies ==
    {Chars(valid_complexities[k]) : k \in 1..Len(valid_complexities)}
    \cup {<<" ", "O", "(", "N", ")", "\n">>,
          <<"O", "(", "n", "l", "o", "g", "n", ")">>,
          <<"l", "i", "n", "e", "a", "r">>,
          <<"q", "u", "a", "d", "r", "a", "t", "i", "c">>,
          <<"u", "n", "s", "u", "r", "e">>,
          <<>>}

(* ------------------------------ Analyst.run --------------------------- *)

\* Entry of Analyst.run(report, constraints)
AnalystInit ==
    /\ ControllerNotStarted
    /\ ProfilerNotStarted
    /\ BatchNotStarted
    /\ an_pc = "fit"
    /\ an_report \in {Some(r) : r \in Reports}
    /\ time_complexity = None
    /\ an_return = None
    /\ an_raised = None
    /\ oracle_calls = 0
    /\ oracle_reply = None
    /\ fit_path = ""

\* Line 223, up to the label or to the request of _llm_complexity_analysis
FitStep ==
    /\ an_pc = "fit"
    /\ LET f == CurveFit(The(an_report)) IN
       /\ fit_path' = f.path
       /\ IF f.oracle
          THEN an_pc' = "oracle" /\ UNCHANGED time_complexity
          ELSE an_pc' = "verdict" /\ time_complexity' = Some(f.label)
    /\ UNCHANGED <<an_report, an_return, an_raised, oracle_calls, oracle_reply>>
    /\ UNCHANGED <<ctl_vars, prof_vars, batch_vars>>

\* Lines 174-217: the chat completion request and the label read from it
OracleStep ==
    /\ an_pc = "oracle"
    /\ \E out \in {None} \cup {Some(r) : r \in OracleReplies} :
         /\ oracle_reply' = out
         /\ time_complexity' = Some(LlmComplexityAnalysis(out))
    /\ oracle_calls' = oracle_calls + 1
    /\ an_pc' = "verdict"
    /\ UNCHANGED <<an_report, an_return, an_raised, fit_path>>
    /\ UNCHANGED <<ctl_vars, prof_vars, batch_vars>>

\* Lines 224-249: the efficiency test, the routing and the VerdictMessage
VerdictStep ==
    /\ an_pc = "verdict"
    /\ LET label     == The(time_complexity)
           efficient == IsEfficientLabel(label)
           gen       == GenerateOptimizationPatch(label, The(an_report))
       IN IF ~efficient /\ gen.raised # ""
          THEN /\ an_raised' = Some(gen.raised)
               /\ UNCHANGED an_return
          ELSE /\ an_return' =
                    Some([efficient    |-> efficient,
                          target_agent |-> TargetFor(efficient),
                          patch        |-> IF efficient THEN None
                                           ELSE Some(gen.patch),
                          perf_gain    |-> 0])
               /\ UNCHANGED an_raised
    /\ an_pc' = "done"
    /\ UNCHANGED <<an_report, time_complexity, oracle_calls, oracle_reply,
                   fit_path>>
    /\ UNCHANGED <<ctl_vars, prof_vars, batch_vars>>

AnalystNext ==
    \/ FitStep
    \/ OracleStep
    \/ VerdictStep

AnalystSpec == AnalystInit /\ [][AnalystNext]_vars

(* ====================== properties of Analyst.run ===================== *)

\* The valid points of the report under analysis.
ValidPoints == SelectSeq(The(an_report).runtime_ms, IsValidRuntime)

(* C18: for every report with fewer than 3 valid runtime points (strictly
   positive and not the infinite sentinel) the label is O(1), no chat
   completion request is made, and Analyst.run returns a Verdict with
   efficient = true. *)
C18_FewPointsDefault ==
    (an_pc \notin {"idle", "fit"} /\ Len(ValidPoints) < 3)
        => /\ time_complexity = Some("O(1)")
           /\ oracle_calls = 0
           /\ oracle_reply = None
           /\ an_pc \in {"verdict", "done"}
           /\ an_pc = "done" => /\ an_raised = None
                                /\ an_return # None
                                /\ The(an_return).efficient

C18_Witness ==
    /\ an_pc = "done"
    /\ The(an_report).input_sizes = <<0, 1, 10, 100>>
    /\ The(an_report).runtime_ms = <<10, Inf, 0, 100>>
    /\ an_return # None
    /\ The(an_return).efficient
    /\ time_complexity = Some("O(1)")
    /\ oracle_calls = 0

(* C19: efficiency predicate.  The Verdict returned by Analyst.run has
   efficient = true exactly when the label is one of O(1), O(log n), O(n),
   O(n log n); for every other label, the unknown label O(?) included, the
   Verdict has efficient = false and target CODER.  A call whose label is
   one of the four always returns. *)
C19_EfficiencyPredicate ==
    /\ an_return # None =>
         /\ The(an_return).efficient
              <=> The(time_complexity)
                    \in {"O(1)", "O(log n)", "O(n)", "O(n log n)"}
         /\ ~The(an_return).efficient
              => The(an_return).target_agent = Some("CODER")
    /\ (/\ an_pc = "done"
        /\ The(time_complexity) \in {"O(1)", "O(log n)", "O(n)", "O(n log n)"})
         => an_return # None /\ an_raised = None

C19_Witness ==
    /\ an_return # None
    /\ time_complexity = Some("O(?)")
    /\ oracle_calls = 1
    /\ ~The(an_return).efficient
    /\ The(an_return).target_agent = Some("CODER")

(* C20: in every Verdict produced by Analyst.run the target is set if and
   only if efficient is false, and the patch is a non-empty text if and
   only if efficient is false. *)
C20_TargetAndPatchIffInefficient ==
    an_return # None =>
        LET v == The(an_return) IN
        /\ v.target_agent # None <=> ~v.efficient
        /\ (v.patch # None /\ ~IsEmptyText(The(v.patch))) <=> ~v.efficient
        /\ v.efficient => v.patch = None

C20_Witness ==
    /\ an_return # None
    /\ time_complexity = Some("O(n log n)")
    /\ oracle_calls = 1
    /\ The(an_return).efficient
    /\ The(an_return).target_agent = None
    /\ The(an_return).patch = None

\* A Verdict that is not efficient: target and patch are both set.
C20_InefficientVerdict ==
    /\ an_return # None
    /\ time_complexity = Some("O(n^2)")
    /\ fit_path = "slope"
    /\ The(an_return).target_agent = Some("CODER")
    /\ The(an_return).patch = Some(<<"Optimize nested loop structure.">>)

\* The regression Analyst.run computed for its report (lines 31-44).
FitOfReport ==
    LinearFit(LogSizes(The(an_report)), LogRuntimes(The(an_report)))

(* C21: when the fitted curve is unambiguous the label is a function of the
   slope alone: slope < 0.5 gives O(1), 0.5 <= slope < 1.5 gives O(n),
   1.5 <= slope < 2.5 gives O(n^2), anything else O(n^k), and no chat
   completion request is made.  A clean linear series over a 10x size range
   is labelled O(n) and efficient, a clean quadratic one O(n^2) and not
   efficient. *)
C21_SlopeAloneDecides ==
    /\ fit_path = "slope" =>
         LET num == FitOfReport.num
             den == FitOfReport.den
         IN /\ den > 0
            /\ oracle_calls = 0 /\ oracle_reply = None
            /\ 2 * num < den => time_complexity = Some("O(1)")
            /\ (den <= 2 * num /\ 2 * num < 3 * den)
                 => time_complexity = Some("O(n)")
            /\ (3 * den <= 2 * num /\ 2 * num < 5 * den)
                 => time_complexity = Some("O(n^2)")
            /\ 5 * den <= 2 * num => time_complexity = Some("O(n^k)")
    /\ (/\ an_pc = "done"
        /\ The(an_report).input_sizes = <<1, 10, 100, 1000>>
        /\ The(an_report).runtime_ms = <<1, 10, 100, Inf>>)
         => /\ fit_path = "slope"
            /\ time_complexity = Some("O(n)")
            /\ an_return # None /\ The(an_return).efficient
    /\ (/\ an_pc = "done" /\ an_raised = None
        /\ The(an_report).input_sizes = <<1, 10, 100, 1000>>
        /\ The(an_report).runtime_ms = <<1, 100, 10000, Inf>>)
         => /\ fit_path = "slope"
            /\ time_complexity = Some("O(n^2)")
            /\ an_return # None /\ ~The(an_return).efficient

C21_Witness ==
    /\ an_pc = "done"
    /\ fit_path = "slope"
    /\ The(an_report).input_sizes = <<1, 10, 100, 1000>>
    /\ The(an_report).runtime_ms = <<1, 100, 10000, Inf>>
    /\ FitOfReport.num = 2 * FitOfReport.den
    /\ time_complexity = Some("O(n^2)")
    /\ oracle_calls = 0
    /\ an_return # None /\ ~The(an_return).efficient

\* A slope of 3 is labelled by the last branch of the mapping.
C21_HigherOrderBySlope ==
    /\ an_pc = "done"
    /\ fit_path = "slope"
    /\ FitOfReport.num = 3 * FitOfReport.den
    /\ time_complexity = Some("O(n^k)")
    /\ oracle_calls = 0


\* Some step between consecutive valid points rises by more than 10%.
HasSignificantRise ==
    \E i \in 2..Len(ValidPoints) : 10 * ValidPoints[i] > 11 * ValidPoints[i - 1]

\* Some step between consecutive valid points falls by more than 10%.
HasSignificantFall ==
    \E i \in 2..Len(ValidPoints) : 10 * ValidPoints[i] < 9 * ValidPoints[i - 1]

(* C22: for every report with at least 3 valid runtime points among which
   one consecutive step rises by more than 10% and another falls by more
   than 10%, the fit does not take the slope mapping: the curve goes to the
   chat completion request, whatever the slope and R^2 are. *)
C22_NonMonotonicIsAmbiguous ==
    (/\ fit_path # ""
     /\ Len(ValidPoints) >= 3
     /\ HasSignificantRise
     /\ HasSignificantFall)
        => /\ fit_path \in {"ambiguous", "ValueError", "ZeroDivisionError"}
           /\ an_pc = "oracle" \/ oracle_calls = 1

\* With four valid points the same shape is flagged.
C22_FourPointsFlagged ==
    /\ fit_path = "ambiguous"
    /\ Len(ValidPoints) = 4
    /\ HasSignificantRise /\ HasSignificantFall
    /\ ~FitOfReport.r2_low
    /\ ~SlopeWithin(FitOfReport.num, FitOfReport.den, 4, 6)
    /\ oracle_calls = 1


\* The regression was computed: at least 3 valid points, positive sizes and
\* a non-zero denominator (line 36).
FitComputed == fit_path \in {"ambiguous", "slope"}

\* max(sizes) / min(sizes) < 10 over the fitted sizes.
SizeRatioBelowTen ==
    \E i, j \in 1..Len(FittedSizes(The(an_report))) :
        LET sizes == FittedSizes(The(an_report)) IN
        /\ \A k \in 1..Len(sizes) : sizes[k] <= sizes[i] /\ sizes[j] <= sizes[k]
        /\ sizes[i] < 10 * sizes[j]

\* One of: R^2 < 0.7; slope in [0.4, 0.6], [1.3, 1.7] or [2.3, 2.7];
\* slope < -0.5 or slope > 10; size ratio below 10.
SomeAmbiguityCriterion ==
    LET num == FitOfReport.num
        den == FitOfReport.den
    IN \/ FitOfReport.r2_low
       \/ 4 * den <= 10 * num /\ 10 * num <= 6 * den
       \/ 13 * den <= 10 * num /\ 10 * num <= 17 * den
       \/ 23 * den <= 10 * num /\ 10 * num <= 27 * den
       \/ 2 * num < -den
       \/ num > 10 * den
       \/ SizeRatioBelowTen

(* C23: once the regression is computed, the curve is flagged ambiguous and
   the chat completion request replaces the slope mapping whenever R^2 < 0.7,
   or the slope lies in [0.4, 0.6], [1.3, 1.7] or [2.3, 2.7] (bounds
   included), or the slope is below -0.5 or above 10, or the largest size is
   less than 10 times the smallest; when none of these holds and the
   runtimes do not both rise and fall by more than 10%, the curve is
   unambiguous and the slope mapping is used. *)
C23_AmbiguityCriteria ==
    FitComputed =>
        /\ SomeAmbiguityCriterion
             => /\ fit_path = "ambiguous"
                /\ an_pc = "oracle" \/ oracle_calls = 1
        /\ (~SomeAmbiguityCriterion
            /\ ~(HasSignificantRise /\ HasSignificantFall))
             => fit_path = "slope" /\ oracle_calls = 0

\* Slope exactly 0.4 with R^2 = 0.8: only the inclusive band bound fires.
C23_Witness ==
    /\ fit_path = "ambiguous"
    /\ oracle_calls = 1
    /\ 10 * FitOfReport.num = 4 * FitOfReport.den
    /\ ~FitOfReport.r2_low
    /\ ~SizeRatioBelowTen
    /\ ~HasSignificantFall

\* Slope exactly 1.7.
C23_UpperBandBound ==
    /\ fit_path = "ambiguous"
    /\ 10 * FitOfReport.num = 17 * FitOfReport.den
    /\ ~FitOfReport.r2_low

\* A perfect linear fit over sizes 1..8 is flagged for its size range alone.
C23_SmallRangeOnly ==
    /\ fit_path = "ambiguous"
    /\ SizeRatioBelowTen
    /\ FitOfReport.num = FitOfReport.den
    /\ ~FitOfReport.r2_low
    /\ ~HasSignificantFall

\* A negative slope below -0.5 with a good fit.
C23_NegativeSlope ==
    /\ fit_path = "ambiguous"
    /\ 2 * FitOfReport.num < -FitOfReport.den
    /\ ~FitOfReport.r2_low
    /\ HasSignificantFall /\ ~HasSignificantRise

\* Low R^2 with a slope outside every band.
C23_LowRSquaredOnly ==
    /\ fit_path = "ambiguous"
    /\ FitOfReport.r2_low
    /\ ~SlopeWithin(FitOfReport.num, FitOfReport.den, 4, 6)
    /\ ~SlopeWithin(FitOfReport.num, FitOfReport.den, 13, 17)
    /\ ~HasSignificantFall
    /\ ~SizeRatioBelowTen

\* None of the criteria holds and the slope mapping is used.
C23_Unambiguous ==
    /\ fit_path = "slope"
    /\ ~SomeAmbiguityCriterion
    /\ ~HasSignificantFall
    /\ oracle_calls = 0


\* The reply contains one of the eight allowed labels (ignoring case or
\* spaces) or one of the patterns n^2, n log n, log n.
ReplyIsRecognisable(c) ==
    \/ \E k \in 1..Len(valid_complexities) :
         \/ Contains(LowerText(c), LowerText(Chars(valid_complexities[k])))
         \/ Contains(RemoveSpaces(c), RemoveSpaces(Chars(valid_complexities[k])))
    \/ Contains(c, <<"n", "^", "2">>) \/ Contains(c, <<"n", "²">>)
    \/ Contains(c, <<"n", " ", "l", "o", "g", " ", "n">>)
    \/ Contains(c, <<"n", "l", "o", "g", "n">>)
    \/ Contains(c, <<"l", "o", "g", " ", "n">>)
    \/ Contains(c, <<"l", "o", "g", "n">>)

(* C24: after a chat completion request that failed, or whose reply contains
   none of the allowed labels and none of the patterns n^2, n log n, log n,
   the label is the unknown label O(?) and the Verdict, if one is returned,
   is not efficient. *)
C24_UnrecognisedReplyIsUnknown ==
    (/\ oracle_calls = 1
     /\ \/ oracle_reply = None
        \/ ~ReplyIsRecognisable(Strip(The(oracle_reply))))
        => /\ time_complexity = Some("O(?)")
           /\ an_return # None => ~The(an_return).efficient

\* A failed request does give the unknown label.
C24_FailedRequestIsUnknown ==
    /\ an_pc = "done"
    /\ oracle_calls = 1
    /\ oracle_reply = None
    /\ time_complexity = Some("O(?)")
    /\ an_return # None /\ ~The(an_return).efficient


\* Peak memory at the largest size is at least 5 times that at the smallest.
MemoryGrowsFivefold ==
    LET pm == The(an_report).peak_memory_mb IN pm[Len(pm)] >= 5 * pm[1]

(* C25: for the label O(n^2) Analyst.run returns a Verdict with
   efficient = false, target CODER and a non-empty patch: the hash-map
   rewrite when peak memory at the largest size is at least 5 times peak
   memory at the smallest size, the nested-loop directive otherwise.  The
   higher-order labels O(n^3) and O(n^k) get the dynamic-programming /
   memoization directive, and the three directives are pairwise
   different. *)
C25_QuadraticPatch ==
    /\ (an_pc = "done" /\ time_complexity = Some("O(n^2)"))
         => /\ an_return # None
            /\ ~The(an_return).efficient
            /\ The(an_return).target_agent = Some("CODER")
            /\ The(an_return).patch # None
            /\ ~IsEmptyText(The(The(an_return).patch))
            /\ The(an_return).patch =
                 IF MemoryGrowsFivefold
                 THEN Some(<<"Replace nested loops with hash map lookup.">>)
                 ELSE Some(<<"Optimize nested loop structure.">>)
    /\ (an_pc = "done" /\ The(time_complexity) \in {"O(n^3)", "O(n^k)"})
         => /\ an_return # None
            /\ The(an_return).patch = Some(<<"Reduce algorithmic complexity.">>)

\* Memory growing 6 times: the hash-map rewrite.
C25_HighGrowthDirective ==
    /\ an_pc = "done"
    /\ time_complexity = Some("O(n^2)")
    /\ The(an_report).peak_memory_mb = <<1, 1, 1, 6>>
    /\ The(an_return).patch = Some(<<"Replace nested loops with hash map lookup.">>)

\* Memory growing exactly 5 times: the nested-loop directive.
C25_ExactlyFivefold ==
    /\ an_pc = "done"
    /\ time_complexity = Some("O(n^2)")
    /\ The(an_report).peak_memory_mb = <<1, 1, 1, 5>>
    /\ The(an_return).patch = Some(<<"Optimize nested loop structure.">>)

\* Zero peak memory at the first size: no Verdict is returned.
C25_ZeroFirstMemory ==
    /\ an_pc = "done"
    /\ time_complexity = Some("O(n^2)")
    /\ The(an_report).peak_memory_mb = <<0, 1, 1, 1>>
    /\ an_return = None
    /\ an_raised = Some("ZeroDivisionError")


\* The input sizes at which the valid runtimes of the report were measured.
OwnSizes ==
    LET rt  == The(an_report).runtime_ms
        idx == SelectSeq([i \in 1..Len(rt) |-> i],
                         LAMBDA i : IsValidRuntime(rt[i]))
    IN [k \in 1..Len(idx) |-> The(an_report).input_sizes[idx[k]]]

(* C30: the log-log fit pairs every valid runtime with the input size at
   which it was measured, also when a failed point (sentinel or non-positive
   runtime) precedes a valid one in the report. *)
C30_ValidPointsKeepTheirSizes ==
    (fit_path # "" /\ Len(ValidPoints) >= 3)
        => FittedSizes(The(an_report)) = OwnSizes

\* A clean linear series after a failed first point, fitted against the
\* sizes of the first three entries, size 0 included.
C30_ShiftedOntoSizeZero ==
    /\ The(an_report).input_sizes = <<0, 1, 10, 100>>
    /\ The(an_report).runtime_ms = <<Inf, 1, 10, 100>>
    /\ OwnSizes = <<1, 10, 100>>
    /\ FittedSizes(The(an_report)) = <<0, 1, 10>>
    /\ fit_path = "ValueError"

\* Without a failed point before a valid one the pairing is right.
C30_NoFailedPointBefore ==
    /\ fit_path = "slope"
    /\ The(an_report).runtime_ms = <<1, 10, 100, Inf>>
    /\ FittedSizes(The(an_report)) = OwnSizes


(* C29: pruner.validate is a total boolean gate: for every Plan it returns
   true or false without raising, and it returns false when the algorithm
   text mentions "while" more than twice and the declared bound n is at
   least 100000. *)
C29_ValidateIsTotal ==
    gate # "" =>
        /\ gate \in {"true", "false"}
        /\ (/\ Count(The(plan).algorithm, "while") > 2
            /\ The(plan).n >= 100000)
             => gate = "false"

\* Plans that do not mention "while" are answered with true or false.
C29_AnsweredWithoutWhile ==
    /\ gate = "false"
    /\ ~HasWord(The(plan).algorithm, "while")
    /\ result # None


\* This step is a call of producer a.
CallStep(a) == ncalls'[a] = ncalls[a] + 1

(* C28: the phases of one run are sequential and ordered.  The pruner is
   called after the one planner call and before any coder call; the coder is
   called once per iteration, the first time after the pruner approved the
   plan; the profiler is called only on the Candidate the coder returned in
   the same iteration, and the analyst only on the profile the profiler
   returned for that Candidate in the same iteration, each once. *)
C28_PhasesInOrder ==
    [][/\ CallStep("pruner")
            => /\ ncalls["planner"] = 1 /\ plan # None
               /\ ncalls["pruner"] = 0 /\ ncalls["coder"] = 0
       /\ CallStep("coder")
            => /\ pc = "coding"
               /\ ncalls["pruner"] = 1 /\ gate = "true"
               /\ ncalls["coder"] = iter_idx
               /\ ncalls["profiler"] <= iter_idx
               /\ ncalls["analyst"] <= iter_idx
       /\ (pc' = "coding" /\ pc' # pc)
            => \/ CallStep("pruner") /\ iter_idx' = 0
               \/ iter_idx' = iter_idx + 1
       /\ CallStep("profiler")
            => /\ pc = "profiling" /\ pc' # "profiling"
               /\ code # None /\ The(code).iter = iter_idx
               /\ ncalls["coder"] = iter_idx + 1
       /\ pc' = "profiling"
            => /\ CallStep("coder")
               /\ code' # None /\ The(code').iter = iter_idx
               /\ iter_idx' = iter_idx
       /\ CallStep("analyst")
            => /\ pc = "analyzing" /\ pc' # "analyzing"
               /\ profile # None
               /\ The(profile).of = The(code)
               /\ The(code).iter = iter_idx
       /\ pc' = "analyzing"
            => /\ CallStep("profiler")
               /\ profile' # None /\ The(profile').of = The(code)
               /\ iter_idx' = iter_idx
      ]_vars

\* The analyst is about to be called in the second iteration, after a failed
\* call in the first.
C28_Witness ==
    /\ pc = "analyzing"
    /\ iter_idx = 1
    /\ nfailed = 1
    /\ ncalls["planner"] = 1 /\ ncalls["pruner"] = 1
    /\ ncalls["coder"] = 2
    /\ The(code).iter = 1
    /\ The(profile).of = The(code)


(* ------------------- BatchRunner.run_benchmark ------------------------ *)

\* The explored calls: task_id of the entries of the tasks argument, the
\* seeds argument (any list of integers the command line gives),
\* runs_per_task and max_workers.
BatchArguments ==
    {[tasks |-> <<"t1">>,       seeds |-> <<42>>,          runs_per_task |-> 1],
     [tasks |-> <<"t1">>,       seeds |-> <<42>>,          runs_per_task |-> 2],
     [tasks |-> <<"t1", "t2">>, seeds |-> <<42>>,          runs_per_task |-> 1],
     [tasks |-> <<"t1">>,       seeds |-> <<42, 123>>,     runs_per_task |-> 1],
     [tasks |-> <<"t1">>,       seeds |-> <<42, 42>>,      runs_per_task |-> 1],
     [tasks |-> <<"t1">>,       seeds |-> <<42, 123, 456>>, runs_per_task |-> 1]}

WorkerCounts == {1, 2}

\* id(code) in a worker process: the address of the source string, a value
\* of that process's own address space.
ObjectIds == {"0x7f3a10", "0x7f3a58"}

\* Lines 139-149: for task in tasks, for seed in seeds,
\* for run_id in range(runs_per_task)
MakeJobs(ts, ss, runs) ==
    [i \in 1..(Len(ts) * Len(ss) * runs) |->
        [task_id |-> ts[((i - 1) \div (Len(ss) * runs)) + 1],
         seed    |-> ss[(((i - 1) \div runs) % Len(ss)) + 1],
         run_id  |-> (i - 1) % runs]]

\* profiler.py:176-178:
\*   pathlib.Path("/tmp") / "swiftsolve_binaries" / f"main_{id(code)}.out"
PersistentBin(code_id) ==
    <<"/tmp", "swiftsolve_binaries", <<"main_", code_id, ".out">>>>

BinaryPaths == {PersistentBin(i) : i \in ObjectIds}

\* Lines 267-273:
\*   self.output_dir / task_id / f"seed_{seed}" / f"run_{run_id}.json"
ResultFile(task_id, seed, run_id) ==
    <<"output_dir", task_id, <<"seed_", seed>>, <<"run_", run_id, ".json">>>>

\* The jobs a worker process is executing.
Busy == {j \in 1..Len(jobs) : future[j] \in {"running", "compiled", "profiled"}}

\* Lines 136-168: the job list is built and every job is submitted.
BatchInit ==
    /\ ControllerNotStarted
    /\ ProfilerNotStarted
    /\ AnalystNotStarted
    /\ b_pc = "collect"
    /\ \E c \in BatchArguments :
         /\ tasks = c.tasks
         /\ seeds = c.seeds
         /\ runs_per_task = c.runs_per_task
         /\ max_workers \in WorkerCounts
         /\ jobs = MakeJobs(c.tasks, c.seeds, c.runs_per_task)
    /\ future = [j \in 1..Len(jobs) |-> "pending"]
    /\ persistent_bin = [j \in 1..Len(jobs) |-> None]
    /\ binaries = [p \in BinaryPaths |-> 0]
    /\ executed = [j \in 1..Len(jobs) |-> {}]
    /\ results = <<>>
    /\ failed_jobs = <<>>
    /\ written = <<>>
    /\ summary = None

\* A free worker process of the pool takes the next submitted job and
\* enters _run_single_job (line 206).
StartJob ==
    /\ \E j \in 1..Len(jobs) :
         /\ future[j] = "pending"
         /\ \A k \in 1..(j - 1) : future[k] # "pending"
         /\ Cardinality(Busy) < max_workers
         /\ future' = [future EXCEPT ![j] = "running"]
    /\ UNCHANGED <<b_pc, tasks, seeds, runs_per_task, max_workers, jobs,
                   persistent_bin, binaries, executed, results, failed_jobs,
                   written, summary>>
    /\ UNCHANGED <<ctl_vars, prof_vars, an_vars>>

\* The job's run_pipeline reaches Profiler._compile_cpp: the binary is copied
\* to main_<id(code)>.out in the directory all processes share
\* (profiler.py:175-186).
WorkerCompile ==
    /\ \E j \in 1..Len(jobs), code_id \in ObjectIds :
         /\ future[j] = "running"
         /\ persistent_bin' =
              [persistent_bin EXCEPT ![j] = Some(PersistentBin(code_id))]
         /\ binaries' = [binaries EXCEPT ![PersistentBin(code_id)] = j]
         /\ future' = [future EXCEPT ![j] = "compiled"]
    /\ UNCHANGED <<b_pc, tasks, seeds, runs_per_task, max_workers, jobs,
                   executed, results, failed_jobs, written, summary>>
    /\ UNCHANGED <<ctl_vars, prof_vars, an_vars>>

\* The job's profiler executes the file at its binary path
\* (profiler.py:88, 204).
WorkerExecute ==
    /\ \E j \in 1..Len(jobs) :
         /\ future[j] = "compiled"
         /\ executed' =
              [executed EXCEPT ![j] = @ \cup {binaries[The(persistent_bin[j])]}]
         /\ future' = [future EXCEPT ![j] = "profiled"]
    /\ UNCHANGED <<b_pc, tasks, seeds, runs_per_task, max_workers, jobs,
                   persistent_bin, binaries, results, failed_jobs, written,
                   summary>>
    /\ UNCHANGED <<ctl_vars, prof_vars, an_vars>>

\* _run_single_job ends (lines 222-246): it returns the job result, or None
\* after an exception, or the future carries an exception of the pool.
WorkerReturn ==
    /\ \E j \in 1..Len(jobs), out \in {"result", "none", "exception"} :
         /\ future[j] \in {"running", "profiled"}
         /\ future' = [future EXCEPT ![j] = out]
    /\ UNCHANGED <<b_pc, tasks, seeds, runs_per_task, max_workers, jobs,
                   persistent_bin, binaries, executed, results, failed_jobs,
                   written, summary>>
    /\ UNCHANGED <<ctl_vars, prof_vars, an_vars>>

\* _save_individual_result(result) for job j (lines 256-275): saved is FALSE
\* when mkdir or open raises.
SaveIndividualResult(j, saved) ==
    IF saved
    THEN written' = Append(written,
                           [path |-> ResultFile(jobs[j].task_id, jobs[j].seed,
                                                jobs[j].run_id),
                            job  |-> j])
    ELSE UNCHANGED written

\* Lines 171-186: one turn of the loop over as_completed(future_to_job).
Collect ==
    /\ b_pc = "collect"
    /\ \E j \in 1..Len(jobs) :
         /\ future[j] \in {"result", "none", "exception"}
         /\ future' = [future EXCEPT ![j] = "collected"]
         /\ IF future[j] = "result"
            THEN \E saved \in BOOLEAN :
                   /\ results' = Append(results, j)
                   /\ SaveIndividualResult(j, saved)
                   /\ failed_jobs' = IF saved THEN failed_jobs
                                     ELSE Append(failed_jobs, j)
            ELSE /\ failed_jobs' = Append(failed_jobs, j)
                 /\ UNCHANGED <<results, written>>
    /\ UNCHANGED <<b_pc, tasks, seeds, runs_per_task, max_workers, jobs,
                   persistent_bin, binaries, executed, summary>>
    /\ UNCHANGED <<ctl_vars, prof_vars, an_vars>>

\* Lines 192-204: the summary, once every future was collected.
Summarise ==
    /\ b_pc = "collect"
    /\ \A j \in 1..Len(jobs) : future[j] = "collected"
    /\ summary' = Some([total_jobs      |-> Len(jobs),
                        successful_jobs |-> Len(results),
                        failed_jobs     |-> Len(failed_jobs)])
    /\ b_pc' = "done"
    /\ UNCHANGED <<tasks, seeds, runs_per_task, max_workers, jobs, future,
                   persistent_bin, binaries, executed, results, failed_jobs,
                   written>>
    /\ UNCHANGED <<ctl_vars, prof_vars, an_vars>>

BatchNext ==
    \/ StartJob
    \/ WorkerCompile
    \/ WorkerExecute
    \/ WorkerReturn
    \/ Collect
    \/ Summarise

BatchSpec == BatchInit /\ [][BatchNext]_vars


(* C26: pipeline runs that execute concurrently in separate worker
   processes never share a persistent binary path, and the binary a run's
   profiler executes is always the one compiled from that run's own
   Candidate. *)
C26_OwnBinaryNamespace ==
    /\ \A j, k \in Busy :
         (j # k /\ persistent_bin[j] # None /\ persistent_bin[k] # None)
            => persistent_bin[j] # persistent_bin[k]
    /\ \A j \in 1..Len(jobs) : executed[j] \subseteq {j}

\* Two concurrent runs whose source strings have different addresses keep
\* their binaries apart.
C26_DifferentAddresses ==
    /\ \E j, k \in Busy :
         /\ j # k
         /\ future[j] = "profiled" /\ future[k] = "profiled"
         /\ persistent_bin[j] # persistent_bin[k]
         /\ executed[j] = {j} /\ executed[k] = {k}

\* Two concurrent runs with the same address: one profiles the other's binary.
C26_ForeignBinaryProfiled ==
    /\ \E j, k \in Busy :
         /\ j # k
         /\ persistent_bin[j] = persistent_bin[k]
         /\ future[j] = "profiled"
         /\ executed[j] = {k}


\* The positions in the write history that belong to job j.
WritesOf(j) == {a \in 1..Len(written) : written[a].job = j}

(* C27: batch results are keyed by (task_id, seed, run_id): whatever the
   completion order, two distinct jobs never write the same result file, and
   every job whose result is recorded in results has exactly one result
   file, at <output>/<task_id>/seed_<seed>/run_<run_id>.json. *)
C27_OneResultFilePerJob ==
    /\ \A a, b \in 1..Len(written) :
         written[a].job # written[b].job => written[a].path # written[b].path
    /\ \A i \in 1..Len(results) :
         /\ Cardinality(WritesOf(results[i])) = 1
         /\ \A a \in WritesOf(results[i]) :
              written[a].path = ResultFile(jobs[results[i]].task_id,
                                           jobs[results[i]].seed,
                                           jobs[results[i]].run_id)

\* Jobs with different keys, collected against submission order, write
\* different files.
C27_DistinctKeysDistinctFiles ==
    /\ b_pc = "done"
    /\ results = <<2, 1>>
    /\ Len(written) = 2
    /\ written[1].job = 2 /\ written[2].job = 1
    /\ written[1].path # written[2].path

\* --seeds 42 42: two jobs of the list write the same file.
C27_RepeatedSeedOverwrites ==
    /\ seeds = <<42, 42>>
    /\ Len(jobs) = 2
    /\ Len(results) = 2
    /\ Len(written) = 2
    /\ written[1].job # written[2].job
    /\ written[1].path = written[2].path

\* A result that is recorded although its file could not be written.
C27_RecordedWithoutFile ==
    /\ \E i \in 1..Len(results) : WritesOf(results[i]) = {}
    /\ \A a, b \in 1..Len(written) :
         written[a].job # written[b].job => written[a].path # written[b].path


(* C31: the pruner gate is applied once per run, to the Plan of the initial
   planner call and before any re-planning request: pruner.validate is never
   called a second time, the step after a re-planning request is a coder
   call or the end of the run, never the gate, and every coder call finds
   exactly one past gate call, whatever re-planning happened before it. *)
C31_GateOnlyOnInitialPlan ==
    [][/\ CallStep("pruner")
            => /\ pc = "pruning"
               /\ ncalls["pruner"] = 0
               /\ ncalls["planner"] = 1
               /\ ncalls["replanner"] = 0
       /\ pc' = "pruning" => CallStep("planner")
       /\ CallStep("replanner")
            => /\ pc' \in {"coding", "done"}
               /\ ncalls'["pruner"] = 1
               /\ gate' = gate
       /\ CallStep("coder") => ncalls["pruner"] = 1 /\ gate = "true"
      ]_vars

\* A coder call that follows a re-planning request, with a single gate call.
C31_Witness ==
    /\ pc = "profiling"
    /\ ncalls["replanner"] = 1
    /\ ncalls["coder"] = 2
    /\ ncalls["pruner"] = 1
    /\ gate = "true"


\* The compilation attempts that produced a binary.
SuccessfulCompiles == {a \in 1..Len(compile_log) : compile_log[a].kind = "ok"}

(* C32: Profiler.run compiles the Candidate once, in at most two attempts,
   before any execution; it then executes the ladder sizes one at a time in
   ladder order, every one on the binary of that compilation, and no
   compilation attempt is made once the executions have started. *)
C32_CompileOnceThenLadder ==
    [][/\ Len(compile_log') <= compile_attempts
       /\ Cardinality(SuccessfulCompiles') <= 1
       /\ Len(measured') > 0
            => /\ SuccessfulCompiles' = {Len(compile_log')}
               /\ binary_path' = Some([binary_of |-> The(prof_code)])
       /\ Len(measured) > 0 => compile_log' = compile_log
       /\ Len(measured') \in {Len(measured), Len(measured) + 1}
       /\ Len(measured') <= Len(input_sizes')
       /\ \A i \in 1..Len(measured') :
            /\ measured'[i].n = input_sizes'[i]
            /\ measured'[i].input_data = input_data_list'[i]
            /\ measured'[i].binary = binary_path'
       /\ prof_return' # None => Len(measured') = Len(input_sizes')
      ]_vars

\* The whole ladder was executed on the binary of the second attempt.
C32_Witness ==
    /\ prof_return # None
    /\ Len(compile_log) = 2
    /\ compile_log[1].kind = "CalledProcessError"
    /\ compile_log[2].kind = "ok"
    /\ Len(measured) = Len(input_sizes)
    /\ Len(measured) >= 3
    /\ \A i \in 1..Len(measured) : measured[i].n = input_sizes[i]


(* C33: whenever run_pipeline computes the convergence gain, the previous
   worst-case runtime it divides by is not zero, so no run ends in a
   division by zero. *)
C33_DivisorNonZero ==
    [][/\ divisions' = divisions + 1 => last_time # 0
       /\ raised' # Some("ZeroDivisionError")
      ]_vars

\* A previous worst-case runtime that is positive: the gain is computed.
C33_PositiveDivisor ==
    /\ divisions = 1
    /\ last_time = 95
    /\ raised = None
    /\ iter_idx >= 1


\* Size 0 is among the first k input sizes, k the number of valid runtimes.
ZeroAmongFirstSizes ==
    \E i \in 1..Len(ValidPoints) :
        i <= Len(The(an_report).input_sizes) /\ The(an_report).input_sizes[i] = 0

(* C34: for a report with at least 3 valid runtimes whose first k input
   sizes (k the number of valid runtimes) include size 0, as on the ladder
   that starts with 0, the fit raises on log10(0) and no label comes from
   the slope: the label is the normalised reply of the chat completion
   request, or O(?) when the request fails. *)
C34_ZeroSizeGoesToOracle ==
    (fit_path # "" /\ Len(ValidPoints) >= 3 /\ ZeroAmongFirstSizes)
        => /\ fit_path = "ValueError"
           /\ an_pc = "oracle" => time_complexity = None /\ oracle_calls = 0
           /\ an_pc # "oracle"
                => /\ oracle_calls = 1
                   /\ oracle_reply = None => time_complexity = Some("O(?)")
                   /\ oracle_reply # None
                        => time_complexity =
                             Some(NormaliseReply(Strip(The(oracle_reply))))

\* Four valid points on the ladder that starts with size 0, labelled by the
\* reply.
C34_Witness ==
    /\ an_pc = "done"
    /\ The(an_report).input_sizes = <<0, 1, 10, 100>>
    /\ The(an_report).runtime_ms = <<1, 1, 10, 100>>
    /\ fit_path = "ValueError"
    /\ oracle_calls = 1
    /\ oracle_reply = Some(Chars("O(n^2)"))
    /\ time_complexity = Some("O(n^2)")

\* The same ladder with a failed request.
C34_OracleFails ==
    /\ an_pc = "done"
    /\ The(an_report).input_sizes = <<0, 1, 10, 100>>
    /\ Len(ValidPoints) = 4
    /\ oracle_calls = 1
    /\ oracle_reply = None
    /\ time_complexity = Some("O(?)")


\* This step is a coder call that raises.
CoderFails == CallStep("coder") /\ code' = code

\* The coder call of the previous iteration raised.
PreviousCoderCallFailed ==
    /\ pc = "coding"
    /\ iter_idx > 0
    /\ ncalls["coder"] = iter_idx
    /\ code = None \/ The(code).iter < iter_idx - 1

(* C35: a coder call that fails leaves the pending patch, the Plan and the
   previous worst-case runtime unchanged, and when the run goes on the next
   coder call receives the same Plan and the same patch as the failed
   one. *)
C35_FailedCoderKeepsPatch ==
    [][/\ CoderFails
            => /\ pending_patch' = pending_patch
               /\ plan' = plan
               /\ last_time' = last_time
       /\ (CallStep("coder") /\ PreviousCoderCallFailed)
            => /\ coder_arg # None
               /\ The(coder_arg').patch = The(coder_arg).patch
               /\ The(coder_arg').plan = The(coder_arg).plan
      ]_vars

\* The patch P1 of the first Verdict, passed to a coder call that failed and
\* again to the retry, which returned.
C35_Witness ==
    /\ pc = "profiling"
    /\ iter_idx = 2
    /\ ncalls["coder"] = 3
    /\ ncalls["profiler"] = 1
    /\ ncalls["analyst"] = 1
    /\ nfailed = 1
    /\ The(verdict).patch = Some("P1")
    /\ The(coder_arg).patch = Some("P1")
    /\ delivered = 1


\* This step is a profiler call that raises.
ProfilerFails == CallStep("profiler") /\ nfailed' = nfailed + 1

\* This step is an analyst call that raises.
AnalystFails == CallStep("analyst") /\ nfailed' = nfailed + 1

\* The coder call of the current iteration was given a patch and returned.
PatchConsumed ==
    /\ pc \in {"profiling", "analyzing"}
    /\ coder_arg # None
    /\ Truthy(The(coder_arg).patch)
    /\ code # None
    /\ The(code).iter = iter_idx

(* C36: once a coder call has consumed a patch, a failure of the profiler or
   of the analyst in that iteration does not restore it.  The failing step
   leaves the pending patch empty and the Plan unchanged, and every coder
   call passes the Plan and the pending patch of the state it starts in, so
   the retry receives the same Plan and no patch. *)
C36_ConsumedPatchStaysConsumed ==
    [][/\ (PatchConsumed /\ (ProfilerFails \/ AnalystFails))
            => /\ pending_patch' = None
               /\ plan' = plan
               /\ The(plan') = The(coder_arg).plan
       /\ CallStep("coder")
            => coder_arg' = Some([plan  |-> The(plan),
                                  patch |-> IF Truthy(pending_patch)
                                            THEN pending_patch ELSE None])
      ]_vars

\* The retry after a profiler failure: the first coder call consumed P1,
\* the profiler then raised, and the next coder call got no patch.
C36_Witness ==
    /\ pc = "profiling"
    /\ iter_idx = 2
    /\ ncalls["coder"] = 3
    /\ ncalls["profiler"] = 2
    /\ ncalls["analyst"] = 1
    /\ nfailed = 1
    /\ The(verdict).patch = Some("P1")
    /\ The(coder_arg).patch = None
    /\ The(code).iter = 2
    /\ delivered = 1

\* The same after an analyst failure.
C36_WitnessAnalyst ==
    /\ pc = "profiling"
    /\ iter_idx = 2
    /\ ncalls["coder"] = 3
    /\ ncalls["profiler"] = 2
    /\ ncalls["analyst"] = 2
    /\ nfailed = 1
    /\ The(verdict).patch = Some("P1")
    /\ The(coder_arg).patch = None
    /\ The(code).iter = 2
    /\ delivered = 1


\* v has the target Analyst.run gives a Verdict of its efficiency.
AnalystMade(v) == v.target_agent = TargetFor(v.efficient)

(* C37: with Verdicts as Analyst.run builds them (target CODER exactly
   when not efficient) the controller never issues a replanning request: an
   analyst step returning such a Verdict never leads to the replanning
   phase, a replanning call only ever follows a Verdict the Analyst cannot
   build, the Plan changes after the initial planner call only in a
   replanning call, and every coder call is given the current Plan; so
   every coder call of a run fed by the Analyst uses the initial Plan. *)
C37_AnalystNeverReplans ==
    [][/\ (AnalystReturns /\ AnalystMade(The(verdict'))) => pc' # "replanning"
       /\ CallStep("replanner") => ~AnalystMade(The(verdict))
       /\ (plan # None /\ plan' # plan) => CallStep("replanner")
       /\ CallStep("coder") => The(coder_arg').plan = The(plan)
      ]_vars

\* A third coder call after two non-efficient Verdicts as the Analyst builds
\* them, with no replanning call in the run.
C37_Witness ==
    /\ pc = "profiling"
    /\ iter_idx = 2
    /\ ncalls["coder"] = 3
    /\ ncalls["analyst"] = 2
    /\ ncalls["replanner"] = 0
    /\ nfailed = 0
    /\ ~The(verdict).efficient
    /\ AnalystMade(The(verdict))
    /\ The(coder_arg).plan = The(plan)


\* Position of a loop phase inside one iteration.
PhaseRank(p) ==
    CASE p = "coding"     -> 0
      [] p = "profiling"  -> 1
      [] p = "analyzing"  -> 2
      [] p = "replanning" -> 3

\* An upper bound on the number of producer calls still to come.
StepsLeft ==
    CASE pc = "done"     -> 0
      [] pc = "planning" -> 4 * max_iter + 2
      [] pc = "pruning"  -> 4 * max_iter + 1
      [] OTHER           -> 4 * (max_iter - iter_idx) - PhaseRank(pc)

(* C38: run_pipeline terminates when every producer call returns or raises.
   Every step is one producer call and strictly decreases a non-negative
   measure, a run that has not ended can always take its next step, the
   loop index stays below max_iterations, and the run makes at most one
   initial planner call, one pruner call and max_iterations calls each to
   the coder, the profiler, the analyst and the re-planner. *)
C38_TerminatesWithinBudget ==
    /\ [](/\ StepsLeft >= 0
          /\ pc # "done" => ENABLED Next
          /\ pc = "done" => (result # None \/ raised # None)
          /\ iter_idx < max_iter
          /\ ncalls["planner"] <= 1
          /\ ncalls["pruner"] <= 1
          /\ \A a \in {"coder", "profiler", "analyst", "replanner"} :
                ncalls[a] <= max_iter
          /\ ncalls["coder"] <= iter_idx + 1)
    /\ [][/\ StepsLeft' < StepsLeft
          /\ \E a \in Producers : CallStep(a)]_vars

\* A run that used every iteration: three coder, profiler and analyst calls
\* under max_iterations = 3, ended after the loop.
C38_Witness ==
    /\ pc = "done"
    /\ max_iter = MaxIterBound
    /\ iter_idx = max_iter - 1
    /\ ncalls["planner"] = 1
    /\ ncalls["pruner"] = 1
    /\ ncalls["coder"] = max_iter
    /\ ncalls["profiler"] = max_iter
    /\ ncalls["analyst"] = max_iter
    /\ result # None
    /\ The(result).status = "failed"


\* How often job j was counted in the sequence s.
TimesCounted(s, j) == Cardinality({i \in 1..Len(s) : s[i] = j})

(* C39: in run_benchmark every submitted job is counted exactly once,
   either in results or in failed_jobs, whatever the completion order and
   whatever fails while it is collected; so in the summary
   successful_jobs + failed_jobs = total_jobs
                                 = |tasks| * |seeds| * runs_per_task. *)
C39_EveryJobCountedOnce ==
    /\ \A j \in 1..Len(jobs) :
         /\ TimesCounted(results, j) + TimesCounted(failed_jobs, j) <= 1
         /\ future[j] = "collected"
              => TimesCounted(results, j) + TimesCounted(failed_jobs, j) = 1
    /\ summary # None =>
         /\ The(summary).total_jobs = Len(tasks) * Len(seeds) * runs_per_task
         /\ The(summary).successful_jobs + The(summary).failed_jobs
              = The(summary).total_jobs

\* A job whose result file could not be written is in results and in
\* failed_jobs, and the summary counts one job more than was submitted.
C39_CountedTwice ==
    /\ summary # None
    /\ \E j \in 1..Len(jobs) :
         /\ TimesCounted(results, j) = 1
         /\ TimesCounted(failed_jobs, j) = 1
         /\ \A w \in 1..Len(written) : written[w].job # j
    /\ The(summary).successful_jobs + The(summary).failed_jobs
         = The(summary).total_jobs + 1

\* When every result file is written, or the job itself fails, the counts
\* add up.
C39_CountsAddUpWithoutSaveError ==
    (summary # None /\ Len(written) = Len(results))
        => /\ The(summary).successful_jobs + The(summary).failed_jobs
                = The(summary).total_jobs
           /\ \A j \in 1..Len(jobs) :
                TimesCounted(results, j) + TimesCounted(failed_jobs, j) = 1

====
